---- MODULE Spec2Model ----
(***************************************************************************)
(* A model of wcs2kml: the wraparound utilities (wraparound.h), the        *)
(* bounding-box extremum finder (boundingbox.cc), the projected-size       *)
(* computation of the sky projector (skyprojection.cc) and the quadtree    *)
(* tiler (regionator.cc).                                                  *)
(*                                                                         *)
(* Numbers.  The code computes in doubles; the model computes in integers. *)
(* Angles are whole model units (one unit = one degree); a quotient that   *)
(* the code rounds with static_cast<int>(v + 0.5) is rounded exactly, on   *)
(* the rational value.  A failed assert() or CHECK() ends the run (the     *)
(* component's pc becomes "assert_failed"), exit(EXIT_FAILURE) ends it     *)
(* with pc "exit".                                                         *)
(*                                                                         *)
(* Each component has its own specification over the shared variables:     *)
(* SpecWrap, SpecBBox, SpecSky, SpecWarp, SpecRegion, SpecImage, SpecMask, *)
(* SpecDegenerate, SpecPixel; SpecPasses, SpecOrder and SpecKml are the    *)
(* bounding box and the regionator over other sets of inputs, and          *)
(* SpecRegionFair is SpecOrder with fairness.                              *)
(***************************************************************************)
EXTENDS Integers, Sequences, FiniteSets

VARIABLES
    \* ---- wraparound utilities: one call on one input
    wa_in,      \* the ra handed to the function
    wa_out,     \* the ra after the calls made so far
    wa_op,      \* "none" | "restore" | "monotonic" | "monotonic_restore"
    \* ---- BoundingBox
    bb_width, bb_height,    \* the dimensions FindBoundingBox is called with
    wcs_sky,                \* pix2wcs: walked pixel <<x, y>> -> [ra, dec]
    ra_min_, ra_max_, dec_min_, dec_max_,   \* Points [ra, dec, x, y]
    is_wrapped_, crosses_north_pole_, crosses_south_pole_,
    bb_probe,   \* what wcs.ToPixel answered for the poles in this call
    bb_pc,      \* position inside FindBoundingBox / the getter
    bb_idx,     \* index of the next perimeter sample of the current pass
    bb_pass,    \* number of the perimeter pass (1 or 2)
    mono_ra_min, mono_ra_max,   \* outputs of GetMonotonicRaBounds
    \* ---- SkyProjection (its bounding_box_ is the BoundingBox above)
    image_width, image_height,          \* image_.width(), image_.height()
    projected_width_, projected_height_,
    sp_pc,      \* "new" | "ready" | "assert_failed"
    sp_op,      \* the last member function that ran
    sp_old_width, sp_old_height,    \* the projected size before that call
    sp_arg,     \* max_side_length of the last SetMaxSideLength call
    sp_warp_calls,      \* number of WarpImage calls made on the object
    projected_images,   \* the images WarpImage has filled, in order
    world_file,         \* the lines CreateWorldFile returned, or << >>
    \* ---- Regionator
    rg_width, rg_height,    \* image_->width(), image_->height()
    rg_alpha,               \* the alpha channel of the image (a pattern name)
    rg_box,     \* the bounds of the BoundingBox handed to the constructor
    ra_pixel_scale_, dec_pixel_scale_,  \* degrees per pixel, [num, den]
    ra_upper_left_, dec_upper_left_,
    min_lod_pixels_, max_lod_pixels_,
    x_tile_size_, y_tile_size_,
    rg_side_length,     \* argument of the last SetMaxTileSideLength call
    top_level_draw_order_,
    rg_draw_order_set,  \* set_top_level_draw_order has been called
    rg_pc,      \* "new" | "constructed" | "tiling" | "root" | "done"
                \* | "exit" | "assert_failed"
    rg_nan,     \* what converting a NaN to int yields in this build
    rg_stack,   \* the SplitTileRecursively calls in progress, innermost last
    rg_tiles,   \* the tile images written, in order
    rg_kmls,    \* the tile KML files opened for writing, in order
    rg_root,    \* "none" | "written" | "truncated": the root KML
    rg_root_link,   \* the network link of the root KML, << >> before
    rg_fault,   \* the I/O operation that has failed in this run, or "none"
    \* ---- Image
    im_size_bytes,  \* sizeof(size_t) of the build: 4 or 8
    im_width_, im_height_, im_channels_,
    im_buffer,      \* bytes allocated for pixels_ (limbs), << >> when NULL
    im_pc,          \* "ready" | "check_failed"
    im_op,          \* the last member function that ran
    im_resizes,     \* number of Resize calls made on the image
    im_request,     \* the arguments of the last Resize call
    im_result,      \* "true" | "false": what that call returned, or "none"
    \* ---- Mask::CreateMask
    mk_image,       \* [width, height, channels, pixels: <<i, j>> -> color]
    mk_color,       \* mask_out_color: [channels, value]
    mk_mask,        \* the mask image, << >> before it is resized
    mk_pc,          \* "ready" | "done" | "exit" | "assert_failed"
    \* ---- SkyProjection::WarpImage, one output pixel
    wp_width, wp_height,    \* image_.width(), image_.height()
    wp_origin,      \* input_image_origin_: "UPPER_LEFT" | "LOWER_LEFT"
    wp_answer,      \* what wcs_->ToPixel gave: [x, y, inside], x and y in
                    \* half pixels
    wp_pixel,       \* what SetPixel wrote to the output pixel, or "none"
    wp_pc           \* "ready" | "done" | "assert_failed"

wrapVars == <<wa_in, wa_out, wa_op>>
bboxVars == <<bb_width, bb_height, wcs_sky,
              ra_min_, ra_max_, dec_min_, dec_max_,
              is_wrapped_, crosses_north_pole_, crosses_south_pole_,
              bb_probe, bb_pc, bb_idx, bb_pass, mono_ra_min, mono_ra_max>>
skyVars == <<image_width, image_height, projected_width_, projected_height_,
             sp_pc, sp_op, sp_old_width, sp_old_height, sp_arg,
             sp_warp_calls, projected_images, world_file>>
regionVars == <<rg_width, rg_height, rg_alpha, rg_box, ra_pixel_scale_,
                dec_pixel_scale_, ra_upper_left_, dec_upper_left_,
                min_lod_pixels_, max_lod_pixels_, x_tile_size_, y_tile_size_,
                rg_side_length, top_level_draw_order_, rg_draw_order_set,
                rg_pc, rg_nan, rg_stack, rg_tiles, rg_kmls,
                rg_root, rg_root_link, rg_fault>>
imageVars == <<im_size_bytes, im_width_, im_height_, im_channels_,
               im_buffer, im_pc, im_op, im_resizes, im_request, im_result>>
maskVars == <<mk_image, mk_color, mk_mask, mk_pc>>
pixelVars == <<wp_width, wp_height, wp_origin, wp_answer, wp_pixel, wp_pc>>
vars == <<wrapVars, bboxVars, skyVars, regionVars, imageVars, maskVars,
          pixelVars>>

\* What the actions of one component leave alone: the other components.
wrapOthers == <<bboxVars, skyVars, regionVars, imageVars, maskVars, pixelVars>>
bbOthers == <<wrapVars, skyVars, regionVars, imageVars, maskVars, pixelVars>>
skyOthers == <<wrapVars, regionVars, imageVars, maskVars, pixelVars>>
regionOthers == <<wrapVars, bboxVars, skyVars, imageVars, maskVars, pixelVars>>
imageOthers == <<wrapVars, bboxVars, skyVars, regionVars, maskVars, pixelVars>>
maskOthers == <<wrapVars, bboxVars, skyVars, regionVars, imageVars, pixelVars>>
pixelOthers == <<wrapVars, bboxVars, skyVars, regionVars, imageVars, maskVars>>

----------------------------------------------------------------------------
(* wraparound.h *)

\* static const double WrapAround::THREE_SIXTY (declared wraparound.h:108;
\* its definition is in wraparound.cc).
THREE_SIXTY == 360

\* static const double WrapAround::MAX_DELTA_RA (declared wraparound.h:107;
\* its definition is in wraparound.cc): the fixed threshold of
\* ImageWrapsAround and MakeRaMonotonic, a span no single image reaches.
\* wraparound_test.cc:38-62 puts it at 10 or more, above 5, below 340 and
\* at 355 or less.
MAX_DELTA_RA == 300

Abs(v) == IF v < 0 THEN -v ELSE v

\* wraparound.h:72-74
ImageWrapsAround(ra_min, ra_max) == Abs(ra_min - ra_max) > MAX_DELTA_RA

\* wraparound.h:87-91
MakeRaMonotonic(ra) == IF ra < MAX_DELTA_RA THEN ra + THREE_SIXTY ELSE ra

\* wraparound.h:98-100: while (*ra > THREE_SIXTY) *ra -= THREE_SIXTY;
RECURSIVE LowerInto360(_)
LowerInto360(ra) ==
    IF ra > THREE_SIXTY THEN LowerInto360(ra - THREE_SIXTY) ELSE ra

\* wraparound.h:101-103: while (*ra < 0.0) *ra += THREE_SIXTY;
RECURSIVE RaiseInto360(_)
RaiseInto360(ra) ==
    IF ra < 0 THEN RaiseInto360(ra + THREE_SIXTY) ELSE ra

\* wraparound.h:97-104
RestoreWrapAround(ra) == RaiseInto360(LowerInto360(ra))

\* Largest |ra| handed to the wraparound functions.
MaxAbsRa == 1100

WrapInputs == (0 - MaxAbsRa) .. MaxAbsRa

InitWrap ==
    /\ wa_in \in WrapInputs
    /\ wa_out = wa_in
    /\ wa_op = "none"

\* A caller applies RestoreWrapAround to its value.
CallRestoreWrapAround ==
    /\ wa_op \in {"none", "monotonic"}
    /\ wa_out' = RestoreWrapAround(wa_out)
    /\ wa_op' = IF wa_op = "none" THEN "restore" ELSE "monotonic_restore"
    /\ UNCHANGED <<wa_in, wrapOthers>>

\* A caller applies MakeRaMonotonic to its value.
CallMakeRaMonotonic ==
    /\ wa_op = "none"
    /\ wa_out' = MakeRaMonotonic(wa_out)
    /\ wa_op' = "monotonic"
    /\ UNCHANGED <<wa_in, wrapOthers>>

NextWrap ==
    \/ CallRestoreWrapAround
    \/ CallMakeRaMonotonic

\* C5: RestoreWrapAround returns a value in the half-open range [0, 360) for
\* every input.  Refuted: an input that is 360, or reaches 360 by whole
\* turns, is returned as 360 (the first loop tests ra > 360, not ra >= 360).
C5_RestoreInHalfOpenRange ==
    wa_op = "restore" => (0 <= wa_out /\ wa_out < THREE_SIXTY)

\* C6: MakeRaMonotonic followed by RestoreWrapAround returns the original
\* value modulo 360.  Refuted: 0 becomes 360 and stays 360.
C6_RestoreUndoesMonotonic ==
    wa_op = "monotonic_restore" => wa_out = wa_in % THREE_SIXTY

----------------------------------------------------------------------------
(* boundingbox.h, boundingbox.cc *)

\* boundingbox.cc:40-41
LARGE_BAD_VALUE == 999
SMALL_BAD_VALUE == -999

\* The declination of the north celestial pole.
PoleDec == 90

\* boundingbox.cc:48-49.  NORTH_POLE is 89.9999999: strictly below the pole
\* and above every other declination of the model, which has no value
\* strictly between PoleDec - 1 and PoleDec.
NORTH_POLE == PoleDec - 1
SOUTH_POLE == 1 - PoleDec

\* boundingbox.h:72-77, Point::SetValues
SetValues(ra, dec, x, y) == [ra |-> ra, dec |-> dec, x |-> x, y |-> y]

\* wcsprojection.h:95-98: pix2wcs, then RestoreWrapAround on ra.
ToRaDec(wcs, x, y) ==
    [ra |-> RestoreWrapAround(wcs[<<x, y>>].ra), dec |-> wcs[<<x, y>>].dec]

\* boundingbox.cc:152-163: for (i = 1; i <= width; ++i) at a fixed y.
EdgeAlongX(width, y) ==
    IF width < 1 THEN << >> ELSE [i \in 1..width |-> <<i, y>>]

\* boundingbox.cc:165-178: for (i = 1; i <= height; ++i) at a fixed x.
EdgeAlongY(x, height) ==
    IF height < 1 THEN << >> ELSE [i \in 1..height |-> <<x, i>>]

\* An edge along y without its two corners.
InnerEdgeAlongY(x, height) ==
    IF height < 3 THEN << >> ELSE [i \in 1..(height - 2) |-> <<x, i + 1>>]

\* A walk that visits every border pixel but leaves out the corners the
\* 3rd and 4th edge visit again.
WalkWithoutRevisits(width, height) ==
    EdgeAlongX(width, 1) \o EdgeAlongX(width, height) \o
    InnerEdgeAlongY(1, height) \o InnerEdgeAlongY(width, height)

\* boundingbox.cc:152-178: the pixels handed to UpdateExtrema, in order.
Walk(width, height) ==
    EdgeAlongX(width, 1) \o EdgeAlongX(width, height) \o
    EdgeAlongY(1, height) \o EdgeAlongY(width, height)

\* The ra of a sample as ToRaDec returns it, wrapped image or not.
UnadjustedRa(wcs, wrapped, x, y) == ToRaDec(wcs, x, y).ra

\* The ra UpdateExtrema compares: boundingbox.cc:112-118.
SampleRa(wcs, wrapped, x, y) ==
    IF wrapped THEN MakeRaMonotonic(ToRaDec(wcs, x, y).ra)
    ELSE ToRaDec(wcs, x, y).ra

\* boundingbox.cc:120-124: the ra branch of UpdateExtrema.
\* box is [ra_min, ra_max, dec_min, dec_max, is_wrapped].
UpdateRa(box, ra, dec, x, y) ==
    IF ra > box.ra_max.ra
    THEN [box EXCEPT !.ra_max = SetValues(ra, dec, x, y)]
    ELSE IF ra < box.ra_min.ra
         THEN [box EXCEPT !.ra_min = SetValues(ra, dec, x, y)]
         ELSE box

\* boundingbox.cc:128-132: the dec branch of UpdateExtrema.
UpdateDec(box, ra, dec, x, y) ==
    IF dec > box.dec_max.dec
    THEN [box EXCEPT !.dec_max = SetValues(ra, dec, x, y)]
    ELSE IF dec < box.dec_min.dec
         THEN [box EXCEPT !.dec_min = SetValues(ra, dec, x, y)]
         ELSE box

\* boundingbox.cc:108-133
UpdateExtrema(box, wcs, x, y) ==
    LET ra == SampleRa(wcs, box.is_wrapped, x, y)
        dec == ToRaDec(wcs, x, y).dec
    IN  UpdateDec(UpdateRa(box, ra, dec, x, y), ra, dec, x, y)

\* boundingbox.cc:142-145: the intentionally bad starting values.
BadValues(wrapped) ==
    [ra_min  |-> SetValues(LARGE_BAD_VALUE, LARGE_BAD_VALUE, 0, 0),
     ra_max  |-> SetValues(SMALL_BAD_VALUE, SMALL_BAD_VALUE, 0, 0),
     dec_min |-> SetValues(LARGE_BAD_VALUE, LARGE_BAD_VALUE, 0, 0),
     dec_max |-> SetValues(SMALL_BAD_VALUE, SMALL_BAD_VALUE, 0, 0),
     is_wrapped |-> wrapped]

\* boundingbox.cc:181-191: the sanity checks at the end of a pass.
SanityChecksHold(box) ==
    /\ box.ra_min.ra < LARGE_BAD_VALUE /\ box.ra_min.dec < LARGE_BAD_VALUE
    /\ box.ra_max.ra > SMALL_BAD_VALUE /\ box.ra_max.dec > SMALL_BAD_VALUE
    /\ box.dec_min.ra < LARGE_BAD_VALUE /\ box.dec_min.dec < LARGE_BAD_VALUE
    /\ box.dec_max.ra > SMALL_BAD_VALUE /\ box.dec_max.dec > SMALL_BAD_VALUE

\* The BoundingBox object as a record.
Box == [ra_min |-> ra_min_, ra_max |-> ra_max_,
        dec_min |-> dec_min_, dec_max |-> dec_max_,
        is_wrapped |-> is_wrapped_]

\* Largest width + height of an image handed to FindBoundingBox.
MaxDimSum == 5

\* The sky positions pix2wcs returns in the model: two on either side of the
\* 0-360 discontinuity (one above 360, one below 0, as returned before
\* RestoreWrapAround), one far from it, and the north celestial pole.
SkyPoints ==
    { [ra |-> 370, dec |-> 5], [ra |-> 0 - 10, dec |-> 0],
      [ra |-> 100, dec |-> 0 - 5], [ra |-> 0, dec |-> PoleDec] }

\* The pixels on the border of a width x height image (pixels count from 1).
PerimeterPixels(width, height) ==
    { p \in (1..width) \X (1..height) :
        p[1] \in {1, width} \/ p[2] \in {1, height} }

\* The pole is one point of the sky: at most one pixel lies on it.
AtMostOnePolePixel(wcs) ==
    Cardinality({ p \in DOMAIN wcs : wcs[p].dec = PoleDec }) <= 1

\* boundingbox.cc:56-60: a constructed BoundingBox and the image it is about
\* to be asked about.  The Points start as Point() (boundingbox.h:50-55).
InitBBoxOf(dim_sum) ==
    /\ bb_width \in 1..(dim_sum - 1)
    /\ bb_height \in 1..(dim_sum - bb_width)
    /\ wcs_sky \in [PerimeterPixels(bb_width, bb_height) -> SkyPoints]
    /\ AtMostOnePolePixel(wcs_sky)
    /\ ra_min_ = SetValues(0, 0, 0, 0)
    /\ ra_max_ = SetValues(0, 0, 0, 0)
    /\ dec_min_ = SetValues(0, 0, 0, 0)
    /\ dec_max_ = SetValues(0, 0, 0, 0)
    /\ is_wrapped_ = FALSE
    /\ crosses_north_pole_ = FALSE
    /\ crosses_south_pole_ = FALSE
    /\ bb_probe = << >>
    /\ bb_pc = "constructed"
    /\ bb_idx = 0
    /\ bb_pass = 0
    /\ mono_ra_min = 0
    /\ mono_ra_max = 0

InitBBox == InitBBoxOf(MaxDimSum)

SetBox(box) ==
    /\ ra_min_' = box.ra_min
    /\ ra_max_' = box.ra_max
    /\ dec_min_' = box.dec_min
    /\ dec_max_' = box.dec_max
    /\ is_wrapped_' = box.is_wrapped

bbInputs == <<bb_width, bb_height, wcs_sky>>
bbGetter == <<mono_ra_min, mono_ra_max>>
bbPoles == <<crosses_north_pole_, crosses_south_pole_, bb_probe>>

\* boundingbox.cc:68-73 and 142-145: FindBoundingBox resets the flags and
\* enters the first perimeter pass.  The method is public (boundingbox.h:181)
\* and may be called again on an object that already holds a box.
BeginFindBoundingBox ==
    /\ bb_pc \in {"constructed", "done"}
    /\ SetBox(BadValues(FALSE))
    /\ crosses_north_pole_' = FALSE
    /\ crosses_south_pole_' = FALSE
    /\ bb_probe' = << >>
    /\ bb_pc' = "walk"
    /\ bb_idx' = 1
    /\ bb_pass' = 1
    /\ UNCHANGED <<bbOthers, bbInputs, bbGetter>>

\* boundingbox.cc:152-178: one iteration of the edge loops.
UpdateExtremaStep ==
    /\ bb_pc = "walk"
    /\ bb_idx <= Len(Walk(bb_width, bb_height))
    /\ LET p == Walk(bb_width, bb_height)[bb_idx]
       IN  SetBox(UpdateExtrema(Box, wcs_sky, p[1], p[2]))
    /\ bb_idx' = bb_idx + 1
    /\ UNCHANGED <<bbOthers, bbInputs, bbGetter, bbPoles, bb_pc, bb_pass>>

\* boundingbox.cc:181-191: the asserts that end a pass.
SanityChecks ==
    /\ bb_pc = "walk"
    /\ bb_idx > Len(Walk(bb_width, bb_height))
    /\ bb_pc' = IF ~SanityChecksHold(Box) THEN "assert_failed"
                ELSE IF bb_pass = 1 THEN "check_wrap" ELSE "poles"
    /\ UNCHANGED <<bbOthers, bbInputs, bbGetter, bbPoles, bb_idx, bb_pass,
                   ra_min_, ra_max_, dec_min_, dec_max_, is_wrapped_>>

\* boundingbox.cc:80-83: the image wraps, so the pass is made again with
\* is_wrapped_ set.
RepeatPassWrapped ==
    /\ bb_pc = "check_wrap"
    /\ ImageWrapsAround(ra_min_.ra, ra_max_.ra)
    /\ SetBox(BadValues(TRUE))
    /\ bb_pc' = "walk"
    /\ bb_idx' = 1
    /\ bb_pass' = 2
    /\ UNCHANGED <<bbOthers, bbInputs, bbGetter, bbPoles>>

\* boundingbox.cc:80: the image does not wrap.
KeepPass ==
    /\ bb_pc = "check_wrap"
    /\ ~ImageWrapsAround(ra_min_.ra, ra_max_.ra)
    /\ bb_pc' = "poles"
    /\ UNCHANGED <<bbOthers, bbInputs, bbGetter, bbPoles, bb_idx, bb_pass,
                   ra_min_, ra_max_, dec_min_, dec_max_, is_wrapped_>>

\* boundingbox.cc:88-102 with the flags left standing: a probe that falls
\* outside the image does not clear the flag of an earlier answer.
StickyPoleProbes(box, north, south, pix) ==
    [crosses_north_pole |-> north \/ south,
     crosses_south_pole |-> south,
     dec_max |-> IF north THEN SetValues(0, NORTH_POLE, pix[1], pix[2])
                 ELSE box.dec_max,
     dec_min |-> IF south THEN SetValues(0, SOUTH_POLE, pix[1], pix[2])
                 ELSE box.dec_min]

\* boundingbox.cc:88-102: what the two probes leave in the object, given the
\* answers of wcs.ToPixel (inside or not, and the pixel).
PoleProbes(box, north, south, pix) ==
    [crosses_north_pole |-> north,
     crosses_south_pole |-> south,
     dec_max |-> IF north THEN SetValues(0, NORTH_POLE, pix[1], pix[2])
                 ELSE box.dec_max,
     dec_min |-> IF south THEN SetValues(0, SOUTH_POLE, pix[1], pix[2])
                 ELSE box.dec_min]

\* boundingbox.cc:88-102: the two pole probes.  wcs.ToPixel answers whether
\* the probed position falls inside the image, and where: both answers come
\* from the WCS, so they are inputs here (north, south; the pixel is one of
\* two positions of the image).
ProbePoles ==
    /\ bb_pc = "poles"
    /\ \E north \in BOOLEAN, south \in BOOLEAN,
          pix \in {<<1, 1>>, <<bb_width, bb_height>>} :
          LET probed == PoleProbes(Box, north, south, pix)
          IN  /\ bb_probe' = <<[north |-> north, south |-> south,
                                pix |-> pix]>>
              /\ crosses_north_pole_' = probed.crosses_north_pole
              /\ crosses_south_pole_' = probed.crosses_south_pole
              /\ dec_max_' = probed.dec_max
              /\ dec_min_' = probed.dec_min
    /\ bb_pc' = "done"
    /\ UNCHANGED <<bbOthers, bbInputs, bbGetter, bb_idx, bb_pass,
                   ra_min_, ra_max_, is_wrapped_>>

\* boundingbox.h:186-194: the value GetMonotonicRaBounds leaves in *ra_min.
MonotonicRaMin(box) == RestoreWrapAround(box.ra_min.ra)

\* boundingbox.h:186-194: the value GetMonotonicRaBounds leaves in *ra_max.
MonotonicRaMax(box) ==
    IF box.is_wrapped THEN MakeRaMonotonic(box.ra_max.ra) ELSE box.ra_max.ra

\* boundingbox.h:186-194, with its closing assert.
GetMonotonicRaBounds ==
    /\ bb_pc = "done"
    /\ mono_ra_min' = MonotonicRaMin(Box)
    /\ mono_ra_max' = MonotonicRaMax(Box)
    /\ bb_pc' = IF MonotonicRaMax(Box) >= MonotonicRaMin(Box)
                THEN "got_bounds" ELSE "assert_failed"
    /\ UNCHANGED <<bbOthers, bbInputs, bbPoles, bb_idx, bb_pass,
                   ra_min_, ra_max_, dec_min_, dec_max_, is_wrapped_>>

NextBBox ==
    \/ BeginFindBoundingBox
    \/ UpdateExtremaStep
    \/ SanityChecks
    \/ RepeatPassWrapped
    \/ KeepPass
    \/ ProbePoles
    \/ GetMonotonicRaBounds

\* C3: after FindBoundingBox, GetMonotonicRaBounds gives rmin <= rmax,
\* wrapped or not, and dec_min.dec <= dec_max.dec.  Refuted for the
\* declinations: an image whose only perimeter pixel is the pole itself gets
\* dec_max_ overwritten with NORTH_POLE, which lies below it.
C3_BoundsOrdered ==
    bb_pc = "done" =>
        /\ MonotonicRaMin(Box) <= MonotonicRaMax(Box)
        /\ dec_min_.dec <= dec_max_.dec

\* The extremum Point the walk records for border pixel p.
PointAt(p) ==
    SetValues(SampleRa(wcs_sky, is_wrapped_, p[1], p[2]),
              ToRaDec(wcs_sky, p[1], p[2]).dec, p[1], p[2])

\* C4: after FindBoundingBox with no pole crossing, each of ra_min, ra_max,
\* dec_min, dec_max is a perimeter pixel with its sky position, and no
\* perimeter pixel has an ra (made monotonic when the image wraps) or a dec
\* beyond them.
C4_ExtremaAreTrueExtrema ==
    (bb_pc = "done" /\ ~crosses_north_pole_ /\ ~crosses_south_pole_) =>
        LET border == PerimeterPixels(bb_width, bb_height)
        IN  /\ \A P \in {ra_min_, ra_max_, dec_min_, dec_max_} :
                  \E p \in border : P = PointAt(p)
            /\ \A p \in border :
                  /\ ra_min_.ra <= PointAt(p).ra
                  /\ PointAt(p).ra <= ra_max_.ra
                  /\ dec_min_.dec <= PointAt(p).dec
                  /\ PointAt(p).dec <= dec_max_.dec

\* C4's case: a wrapped image, two pixels or more each way, whose smallest
\* ra and smallest dec are at the first pixel of the walk, which the first
\* visit records as the maxima only.
C4_Witness ==
    /\ bb_pc = "done" /\ ~crosses_north_pole_ /\ ~crosses_south_pole_
    /\ is_wrapped_ /\ bb_width >= 2 /\ bb_height >= 2
    /\ ra_min_.x = 1 /\ ra_min_.y = 1 /\ ra_min_.ra < ra_max_.ra
    /\ dec_min_.x = 1 /\ dec_min_.y = 1 /\ dec_min_.dec < dec_max_.dec

\* Largest side of an image whose other side is not positive.
MaxDegenerateSide == 2

\* boundingbox.cc:152-178: the pixels the edge loops sample.
WalkPixels(width, height) ==
    { Walk(width, height)[k] : k \in 1..Len(Walk(width, height)) }

\* boundingbox.cc:63-65: a BoundingBox about to be asked about an image
\* whose width or height is not positive.  pix2wcs answers for every pixel
\* coordinate, inside the image or not.
InitDegenerate ==
    /\ bb_width \in (0 - 1)..MaxDegenerateSide
    /\ bb_height \in (0 - 1)..MaxDegenerateSide
    /\ bb_width <= 0 \/ bb_height <= 0
    /\ wcs_sky \in [WalkPixels(bb_width, bb_height) -> SkyPoints]
    /\ AtMostOnePolePixel(wcs_sky)
    /\ ra_min_ = SetValues(0, 0, 0, 0)
    /\ ra_max_ = SetValues(0, 0, 0, 0)
    /\ dec_min_ = SetValues(0, 0, 0, 0)
    /\ dec_max_ = SetValues(0, 0, 0, 0)
    /\ is_wrapped_ = FALSE
    /\ crosses_north_pole_ = FALSE
    /\ crosses_south_pole_ = FALSE
    /\ bb_probe = << >>
    /\ bb_pc = "constructed"
    /\ bb_idx = 0
    /\ bb_pass = 0
    /\ mono_ra_min = 0
    /\ mono_ra_max = 0

\* C18: computing a bounding box with a non-positive width or a
\* non-positive height fails fast on a precondition: no pass over such an
\* image gets through its sanity checks, so no bounding box is returned.
\* Refuted: with a width <= 0 and a height >= 1 the 3rd and 4th edge loops
\* still sample the columns x = 1 and x = width, and when the later samples
\* lie at or below the first in ra and dec all four extrema are set.
C18_DegenerateImageFailsFast ==
    (bb_width <= 0 \/ bb_height <= 0) =>
        bb_pc \in {"constructed", "walk", "assert_failed"} /\ bb_pass <= 1

----------------------------------------------------------------------------
(* skyprojection.h, skyprojection.cc: the projected size *)

\* skyprojection.cc:31-33 applied to sqrt(n), n >= 0: the k >= 0 with
\* k - 1/2 <= sqrt(n) < k + 1/2.
RoundSqrt(n) ==
    CHOOSE k \in 0..(n + 1) :
        /\ (k = 0 \/ (2 * k - 1) * (2 * k - 1) <= 4 * n)
        /\ (2 * k + 1) * (2 * k + 1) > 4 * n

\* skyprojection.cc:31-33 applied to a / sqrt(n), n > 0: static_cast<int>
\* truncates toward zero, so a negative quotient rounds differently.
RoundOverSqrt(a, n) ==
    LET q == (4 * a * a) \div n
    IN  IF a >= 0
        THEN CHOOSE k \in 0..(a + 1) :
                /\ (k = 0 \/ (2 * k - 1) * (2 * k - 1) <= q)
                /\ (2 * k + 1) * (2 * k + 1) > q
        ELSE 0 - (CHOOSE j \in 0..(1 - a) :
                /\ (j = 0 \/ (2 * j + 1) * (2 * j + 1) <= q)
                /\ (2 * j + 3) * (2 * j + 3) > q)

\* skyprojection.cc:31-33 applied to the quotient n / d, n >= 0, d > 0.
RoundQuotient(n, d) == (2 * n + d) \div (2 * d)

\* boundingbox.h:80-84, squared
DistanceXYSquared(p, q) ==
    (q.x - p.x) * (q.x - p.x) + (q.y - p.y) * (q.y - p.y)

\* boundingbox.h:90-94, squared
DistanceRaDecSquared(p, q) ==
    (q.ra - p.ra) * (q.ra - p.ra) + (q.dec - p.dec) * (q.dec - p.dec)

\* skyprojection.cc:27: TINY_THETA_VALUE is 0.1 degrees; an angle is within
\* it of 0 exactly when its squared sine is below 1 / InverseSinSquaredTiny.
InverseSinSquaredTiny == 328282

\* a / (a + b) < 1 / InverseSinSquaredTiny, for a, b >= 0 not both 0.
TinyShare(a, b) == b > 0 /\ a <= (b - 1) \div (InverseSinSquaredTiny - 1)

\* skyprojection.cc:125-165.  theta = acos(dra / (hyp + TINY_FLOAT_VALUE)) lies
\* in 0..180 degrees, so sin(theta) = |ddec| / hyp; TINY_FLOAT_VALUE (1e-8
\* against distances of whole units) only decides the case hyp = 0, where
\* the cosine becomes 0.
DetermineProjectedSize(box, width, height) ==
    LET east_side_len == RoundSqrt(DistanceXYSquared(box.ra_max, box.dec_min))
        north_side_len == RoundSqrt(DistanceXYSquared(box.ra_min, box.dec_min))
        dra == box.ra_max.ra - box.dec_min.ra
        ddec == Abs(box.ra_max.dec - box.dec_min.dec)
        hypsq == DistanceRaDecSquared(box.ra_max, box.dec_min)
        near90 == hypsq = 0 \/ TinyShare(dra * dra, ddec * ddec)
        near0or180 == TinyShare(ddec * ddec, dra * dra)
    IN  IF near90
        THEN [width |-> width, height |-> height]
        ELSE IF near0or180
        THEN [width |-> height, height |-> width]
        ELSE [width |-> RoundOverSqrt(dra * east_side_len
                                      + ddec * north_side_len, hypsq),
              height |-> RoundOverSqrt(ddec * east_side_len
                                       + dra * north_side_len, hypsq)]

\* A cap that clamps each side on its own, without rescaling the other.
ClampEachSide(width, height, max_side_length) ==
    [width |-> IF width > max_side_length THEN max_side_length ELSE width,
     height |-> IF height > max_side_length THEN max_side_length ELSE height]

\* skyprojection.cc:170-186: the size SetMaxSideLength leaves.
CappedSize(width, height, max_side_length) ==
    IF width >= height /\ width > max_side_length
    THEN [width |-> max_side_length,
          height |-> RoundQuotient(height * max_side_length, width)]
    ELSE IF height > width /\ height > max_side_length
    THEN [width |-> RoundQuotient(width * max_side_length, height),
          height |-> max_side_length]
    ELSE [width |-> width, height |-> height]

\* boundingbox.cc:136-179: one perimeter pass from sample i on.  The test on
\* is_wrapped, which UpdateExtrema only reads, has the box of each sample
\* computed before the next sample is taken, as the loops do.
RECURSIVE PassFrom(_, _, _, _)
PassFrom(box, wcs, walk, i) ==
    IF i > Len(walk) THEN box
    ELSE LET next == UpdateExtrema(box, wcs, walk[i][1], walk[i][2])
         IN  IF next.is_wrapped = box.is_wrapped
             THEN PassFrom(next, wcs, walk, i + 1)
             ELSE next

\* boundingbox.cc:136-192 without its asserts.
FindBoundingBoxForKnownWrapped(wcs, width, height, wrapped) ==
    PassFrom(BadValues(wrapped), wcs, Walk(width, height), 1)

\* boundingbox.cc:68-83: the passes of FindBoundingBox.
FindBoundingBoxPasses(wcs, width, height) ==
    LET first == FindBoundingBoxForKnownWrapped(wcs, width, height, FALSE)
    IN  IF SanityChecksHold(first)
           /\ ImageWrapsAround(first.ra_min.ra, first.ra_max.ra)
        THEN FindBoundingBoxForKnownWrapped(wcs, width, height, TRUE)
        ELSE first

\* Largest width and height of the image handed to SkyProjection, and
\* largest side handed to SetProjectedSize and SetMaxSideLength.
MaxImageSide == 5
MaxProjectedSide == 6

\* The image-to-sky maps of the model, linear in the pixel: ra and dec at
\* pixel (1, 1), and their steps per pixel along x and along y.  The maps
\* are unrotated, turned by a right angle, and turned by other angles; one
\* origin is far from the 0-360 discontinuity and one is on it.
LinearMaps ==
    { [ra0 |-> r, dec0 |-> 0, rax |-> m[1], ray |-> m[2],
       decx |-> m[3], decy |-> m[4]] :
        r \in {100, 1},
        m \in { <<0 - 1, 0, 0, 1>>, <<0, 1, 1, 0>>, <<0 - 1, 1, 1, 1>>,
                <<0 - 2, 1, 1, 2>>, <<1, 6, 6, 0 - 1>> } }

\* pix2wcs of a linear map on the border pixels of the image.
SkyOfMap(map, width, height) ==
    [p \in PerimeterPixels(width, height) |->
        [ra |-> map.ra0 + map.rax * (p[1] - 1) + map.ray * (p[2] - 1),
         dec |-> map.dec0 + map.decx * (p[1] - 1) + map.decy * (p[2] - 1)]]

skyImage == <<image_width, image_height, bb_width, bb_height, wcs_sky>>
skyUnused == <<bb_pc, bb_idx, bb_pass, mono_ra_min, mono_ra_max>>
skyOutputs == <<sp_warp_calls, projected_images, world_file>>

\* The arguments of the constructor (skyprojection.cc:41-46 sets the
\* projected size to 0 before anything else).
InitSky ==
    /\ image_width \in 1..MaxImageSide
    /\ image_height \in 1..MaxImageSide
    /\ bb_width = image_width
    /\ bb_height = image_height
    /\ \E map \in LinearMaps :
          wcs_sky = SkyOfMap(map, image_width, image_height)
    /\ ra_min_ = SetValues(0, 0, 0, 0)
    /\ ra_max_ = SetValues(0, 0, 0, 0)
    /\ dec_min_ = SetValues(0, 0, 0, 0)
    /\ dec_max_ = SetValues(0, 0, 0, 0)
    /\ is_wrapped_ = FALSE
    /\ crosses_north_pole_ = FALSE
    /\ crosses_south_pole_ = FALSE
    /\ bb_probe = << >>
    /\ bb_pc = "member"
    /\ bb_idx = 0
    /\ bb_pass = 0
    /\ mono_ra_min = 0
    /\ mono_ra_max = 0
    /\ projected_width_ = 0
    /\ projected_height_ = 0
    /\ sp_pc = "new"
    /\ sp_op = "none"
    /\ sp_old_width = 0
    /\ sp_old_height = 0
    /\ sp_arg = 0
    /\ sp_warp_calls = 0
    /\ projected_images = << >>
    /\ world_file = << >>

\* skyprojection.cc:41-121: the constructor.  It finds the bounding box
\* (with the pole probes answered by the WCS, as in ProbePoles) and calls
\* DetermineProjectedSize, whose asserts (163-164) end the run when a side
\* is not positive.
SkyProjectionCtor ==
    /\ sp_pc = "new"
    /\ \E north \in BOOLEAN, south \in BOOLEAN :
          LET passes == FindBoundingBoxPasses(wcs_sky, image_width,
                                              image_height)
              box == [passes EXCEPT
                        !.dec_max = IF north
                                    THEN SetValues(0, NORTH_POLE, 1, 1)
                                    ELSE @,
                        !.dec_min = IF south
                                    THEN SetValues(0, SOUTH_POLE, 1, 1)
                                    ELSE @]
              size == DetermineProjectedSize(box, image_width, image_height)
          IN  /\ SanityChecksHold(passes)
              /\ SetBox(box)
              /\ crosses_north_pole_' = north
              /\ crosses_south_pole_' = south
              /\ bb_probe' = <<[north |-> north, south |-> south,
                                pix |-> <<1, 1>>]>>
              /\ projected_width_' = size.width
              /\ projected_height_' = size.height
              /\ sp_pc' = IF size.width > 0 /\ size.height > 0
                          THEN "ready" ELSE "assert_failed"
    /\ sp_op' = "DetermineProjectedSize"
    /\ UNCHANGED <<skyOthers, skyImage, skyUnused, skyOutputs,
                   sp_old_width, sp_old_height, sp_arg>>

\* skyprojection.h:67-70.  The caller sets the size by hand, if at all, right
\* after construction (wcs2kml.cc:187-192).
SetProjectedSize ==
    /\ sp_pc = "ready"
    /\ sp_op = "DetermineProjectedSize"
    /\ \E width \in 1..MaxProjectedSide, height \in 1..MaxProjectedSide :
          /\ projected_width_' = width
          /\ projected_height_' = height
    /\ sp_op' = "SetProjectedSize"
    /\ sp_old_width' = projected_width_
    /\ sp_old_height' = projected_height_
    /\ UNCHANGED <<skyOthers, skyImage, skyUnused, skyOutputs, bbPoles,
                   sp_pc, sp_arg,
                   ra_min_, ra_max_, dec_min_, dec_max_, is_wrapped_>>

\* skyprojection.cc:168-189, with its closing asserts.
SetMaxSideLength ==
    /\ sp_pc = "ready"
    /\ \E max_side_length \in 0..MaxProjectedSide :
          LET size == CappedSize(projected_width_, projected_height_,
                                 max_side_length)
          IN  /\ projected_width_' = size.width
              /\ projected_height_' = size.height
              /\ sp_arg' = max_side_length
              /\ sp_pc' = IF size.width > 0 /\ size.height > 0
                          THEN "ready" ELSE "assert_failed"
    /\ sp_op' = "SetMaxSideLength"
    /\ sp_old_width' = projected_width_
    /\ sp_old_height' = projected_height_
    /\ UNCHANGED <<skyOthers, skyImage, skyUnused, skyOutputs, bbPoles,
                   ra_min_, ra_max_, dec_min_, dec_max_, is_wrapped_>>

\* An image that Clear() leaves as it is.
KeptImage(image) == image

\* pngimage.h:96-105: the size of an image after Clear().
Clear(image) == [width |-> 0, height |-> 0]

\* The quotient num / den of two doubles holding whole numbers; den = 0 with
\* num = 0 is the NaN of 0 * (x / 0).
Ratio(num, den) == [num |-> num, den |-> den]

\* skyprojection.cc:311-324: ra = ra_max - i * xscale, with
\* xscale = (ra_max - ra_min) / (width - 1) and the bounds of
\* GetMonotonicRaBounds.
WarpRa(box, width, i) ==
    Ratio(MonotonicRaMax(box) * (width - 1)
            - i * (MonotonicRaMax(box) - MonotonicRaMin(box)), width - 1)

\* skyprojection.cc:313-326: dec = dec_max - j * yscale, with
\* yscale = (dec_max - dec_min) / (height - 1) and the bounds of
\* GetDecBounds (boundingbox.h:206-209).
WarpDec(box, height, j) ==
    Ratio(box.dec_max.dec * (height - 1)
            - j * (box.dec_max.dec - box.dec_min.dec), height - 1)

\* Largest number of WarpImage calls made on one object.
MaxWarpCalls == 2

\* skyprojection.cc:294-361.  The four asserts come first, then the assert
\* of GetMonotonicRaBounds; the output image is given the projected size and
\* each of its pixels the source pixel found at (WarpRa, WarpDec) or the
\* background color (the pixel values are not part of the model); at the
\* end the internal copy is cleared.  With a projected side of 1 the scale
\* is a division by zero and the coordinate a NaN: what ToPixel and Round
\* make of it decides whether GetPixel dies on its bounds or the call ends.
WarpImage ==
    /\ sp_pc = "ready"
    /\ sp_warp_calls < MaxWarpCalls
    /\ sp_warp_calls' = sp_warp_calls + 1
    /\ sp_op' = "WarpImage"
    /\ IF /\ image_width > 0 /\ image_height > 0
          /\ projected_width_ > 0 /\ projected_height_ > 0
          /\ MonotonicRaMax(Box) >= MonotonicRaMin(Box)
       THEN \E dies \in {FALSE,
                         projected_width_ = 1 \/ projected_height_ = 1} :
              IF dies
              THEN /\ sp_pc' = "assert_failed"
                   /\ UNCHANGED <<image_width, image_height,
                                  projected_images>>
              ELSE /\ projected_images' = Append(projected_images,
                        [width |-> projected_width_,
                         height |-> projected_height_,
                         ra |-> [i \in 0..(projected_width_ - 1) |->
                                   WarpRa(Box, projected_width_, i)],
                         dec |-> [j \in 0..(projected_height_ - 1) |->
                                   WarpDec(Box, projected_height_, j)]])
                   /\ image_width' =
                        Clear([width |-> image_width,
                               height |-> image_height]).width
                   /\ image_height' =
                        Clear([width |-> image_width,
                               height |-> image_height]).height
                   /\ sp_pc' = "ready"
       ELSE /\ sp_pc' = "assert_failed"
            /\ UNCHANGED <<image_width, image_height, projected_images>>
    /\ UNCHANGED <<skyOthers, bb_width, bb_height, wcs_sky, skyUnused,
                   bbPoles, ra_min_, ra_max_, dec_min_, dec_max_,
                   is_wrapped_, projected_width_, projected_height_,
                   sp_old_width, sp_old_height, sp_arg, world_file>>

\* The decimals of a printed number the model keeps ("%.14f" prints 14).
Decimals == 3

\* "%.14f" of the quotient num / den, den > 0: the number of units of the
\* last printed decimal, rounded to the nearest.
FormatFixed(num, den) ==
    IF num >= 0
    THEN (2 * num * (10 ^ Decimals) + den) \div (2 * den)
    ELSE 0 - ((2 * (0 - num) * (10 ^ Decimals) + den) \div (2 * den))

\* boundingbox.h:198-203: the value GetWrappedRaBounds leaves in *ra_max.
WrappedRaMax(box) == RestoreWrapAround(box.ra_max.ra)

\* skyprojection.cc:383-434: the six lines of the world file.  The pixel
\* scales divide the ra and dec ranges by the projected width and height.
WorldFileLines(box, width, height) ==
    [x_pixel_size |->
        FormatFixed(0 - (MonotonicRaMax(box) - MonotonicRaMin(box)), width),
     y_rotation |-> FormatFixed(0, 1),
     x_rotation |-> FormatFixed(0, 1),
     y_pixel_size |->
        FormatFixed(0 - (box.dec_max.dec - box.dec_min.dec), height),
     x_upper_left |-> FormatFixed(WrappedRaMax(box) - 180, 1),
     y_upper_left |-> FormatFixed(box.dec_max.dec, 1)]

\* skyprojection.cc:383-434, with the assert of GetMonotonicRaBounds.
CreateWorldFile ==
    /\ sp_pc = "ready"
    /\ world_file = << >>
    /\ sp_op' = "CreateWorldFile"
    /\ IF MonotonicRaMax(Box) >= MonotonicRaMin(Box)
       THEN /\ world_file' = WorldFileLines(Box, projected_width_,
                                            projected_height_)
            /\ UNCHANGED sp_pc
       ELSE /\ sp_pc' = "assert_failed"
            /\ UNCHANGED world_file
    /\ UNCHANGED <<skyOthers, skyImage, skyUnused, bbPoles,
                   ra_min_, ra_max_, dec_min_, dec_max_, is_wrapped_,
                   projected_width_, projected_height_,
                   sp_old_width, sp_old_height, sp_arg,
                   sp_warp_calls, projected_images>>

NextSky ==
    \/ SkyProjectionCtor
    \/ SetProjectedSize
    \/ SetMaxSideLength

\* The warp of an image whose projected size is the automatic one or one set
\* by hand.
NextWarp ==
    \/ SkyProjectionCtor
    \/ SetProjectedSize
    \/ WarpImage
    \/ CreateWorldFile

\* The printed position differs from the quotient num / den (less `offset`,
\* whole turns of 360 apart counting as equal when `cyclic`) by no more
\* than the printing of `steps` + 1 numbers can lose.
Describes(printed, num, den, offset, steps, cyclic) ==
    \E turns \in (IF cyclic THEN {0 - 1, 0, 1} ELSE {0}) :
        Abs(printed * den
              - (num - (offset + 360 * turns) * den) * (10 ^ Decimals))
            <= (steps + 1) * den

\* C15: the world file describes the image WarpImage returned: for every
\* output pixel (i, j), upper-left x + i * x-pixel-size is the ra (minus
\* 180) and upper-left y + j * y-pixel-size is the dec that WarpImage used
\* for the pixel, so the last column is ra_min and the last row dec_min.
\* Refuted: the world file divides the ranges by the width and height,
\* WarpImage by width - 1 and height - 1.
C15_WorldFileDescribesWarp ==
    (world_file # << >> /\ Len(projected_images) = 1) =>
        LET image == projected_images[1]
        IN  /\ \A i \in 0..(image.width - 1) :
                  image.ra[i].den > 0 =>
                    Describes(world_file.x_upper_left
                                + i * world_file.x_pixel_size,
                              image.ra[i].num, image.ra[i].den, 180, i, TRUE)
            /\ \A j \in 0..(image.height - 1) :
                  image.dec[j].den > 0 =>
                    Describes(world_file.y_upper_left
                                + j * world_file.y_pixel_size,
                              image.dec[j].num, image.dec[j].den, 0, j,
                              FALSE)

\* C12: WarpImage can be performed only once per SkyProjection: the first
\* call clears the internal image copy, and a later call on the same object
\* is rejected by its precondition check and fills no output image.
C12_WarpImageOnlyOnce ==
    /\ Len(projected_images) <= 1
    /\ Len(projected_images) = 1 => (image_width = 0 /\ image_height = 0)
    /\ sp_warp_calls >= 2 =>
          (sp_pc = "assert_failed" /\ Len(projected_images) = 1)

\* C12's case: a second WarpImage call after a first one that filled its
\* output image.
C12_Witness ==
    /\ sp_warp_calls = 2 /\ sp_op = "WarpImage"
    /\ Len(projected_images) = 1 /\ projected_images[1].width > 1
    /\ sp_pc = "assert_failed"

\* A bounding box that is not degenerate: it has an extent in ra and in dec.
NonDegenerateBox == ra_min_.ra < ra_max_.ra /\ dec_min_.dec < dec_max_.dec

\* C7: the projected width and height are strictly positive after the
\* automatic size determination for every non-degenerate bounding box, and
\* stay strictly positive after SetMaxSideLength(m), m >= 1.  Refuted: a
\* 2 x 5 projected size capped at 1 gets width Round(2/5) = 0, and an image
\* one pixel wide gets a side of 0 from DetermineProjectedSize.
C7_ProjectedSizePositive ==
    /\ (sp_op = "DetermineProjectedSize" /\ NonDegenerateBox) =>
          (projected_width_ > 0 /\ projected_height_ > 0)
    /\ (sp_op = "SetMaxSideLength" /\ sp_arg >= 1) =>
          (projected_width_ > 0 /\ projected_height_ > 0)

\* C8: SetMaxSideLength(m) never increases a projected side, leaves neither
\* side above m, sets only the larger side to m and leaves the smaller side
\* within one pixel of smaller * m / larger; a size within m is kept.
C8_CapShrinksInProportion ==
    sp_op = "SetMaxSideLength" =>
        /\ projected_width_ <= sp_old_width
        /\ projected_height_ <= sp_old_height
        /\ projected_width_ <= sp_arg
        /\ projected_height_ <= sp_arg
        /\ IF sp_old_width <= sp_arg /\ sp_old_height <= sp_arg
           THEN /\ projected_width_ = sp_old_width
                /\ projected_height_ = sp_old_height
           ELSE IF sp_old_width >= sp_old_height
           THEN /\ projected_width_ = sp_arg
                /\ Abs(projected_height_ * sp_old_width
                       - sp_old_height * sp_arg) <= sp_old_width
           ELSE /\ projected_height_ = sp_arg
                /\ Abs(projected_width_ * sp_old_height
                       - sp_old_width * sp_arg) <= sp_old_height

\* C8's case: a taller-than-wide size above the cap, whose height is set to
\* the cap and whose width is rescaled to something smaller, both positive.
C8_Witness ==
    /\ sp_op = "SetMaxSideLength" /\ sp_pc = "ready"
    /\ sp_old_height > sp_old_width /\ sp_old_height > sp_arg
    /\ projected_height_ = sp_arg
    /\ projected_width_ < sp_old_width /\ projected_width_ > 1

\* C25: is_wrapped is set exactly when the first-pass extrema differ by
\* more than the wraparound threshold; when it is set, the extrema are
\* recomputed from fresh sentinels with MakeRaMonotonic applied to every
\* perimeter sample, so ra_min.ra and ra_max.ra are both monotonic-adjusted
\* values, never a mix of adjusted and unadjusted ones.
C25_WrappedExtremaAllAdjusted ==
    bb_pc \in {"poles", "done", "got_bounds"} =>
        LET first == FindBoundingBoxForKnownWrapped(wcs_sky, bb_width,
                                                    bb_height, FALSE)
            border == PerimeterPixels(bb_width, bb_height)
            adjusted == { MakeRaMonotonic(ToRaDec(wcs_sky, p[1], p[2]).ra) :
                            p \in border }
        IN  /\ is_wrapped_ =
                  ImageWrapsAround(first.ra_min.ra, first.ra_max.ra)
            /\ is_wrapped_ = (bb_pass = 2)
            /\ is_wrapped_ =>
                  /\ ra_min_.ra \in adjusted /\ ra_max_.ra \in adjusted
                  /\ ra_min_.ra >= MAX_DELTA_RA /\ ra_max_.ra >= MAX_DELTA_RA
                  /\ \A a \in adjusted : ra_min_.ra <= a /\ a <= ra_max_.ra

\* C25's case: a wrapped image whose second pass kept one ra as it was and
\* raised another by a whole turn.
C25_Witness ==
    /\ bb_pc = "done" /\ is_wrapped_ /\ bb_pass = 2
    /\ ra_min_.ra < THREE_SIXTY /\ ra_max_.ra > THREE_SIXTY
    /\ bb_width >= 2

\* C26: in each perimeter pass the four extrema start at the sentinels and
\* the first perimeter sample replaces all of them: after it is processed
\* ra_min, ra_max, dec_min and dec_max all hold that sample's values.
\* Refuted: the comparisons are exclusive (if ... else if), so the first
\* sample replaces the two maxima and leaves the two minima at the sentinel.
C26_FirstSampleReplacesAll ==
    (bb_pc = "walk" /\ bb_idx = 2) =>
        LET first == PointAt(Walk(bb_width, bb_height)[1])
        IN  /\ ra_max_ = first /\ dec_max_ = first
            /\ ra_min_ = first /\ dec_min_ = first

\* What FindBoundingBox has to leave in the object once the probes of this
\* call were answered: the flags are the answers, a pole that is inside
\* replaces its dec extremum by the pole point, and everything else is what
\* the perimeter passes computed.
ProbesAnswered ==
    bb_pc \in {"done", "got_bounds"} =>
        LET passes == FindBoundingBoxPasses(wcs_sky, bb_width, bb_height)
            probe == bb_probe[1]
        IN  /\ Len(bb_probe) = 1
            /\ crosses_north_pole_ = probe.north
            /\ crosses_south_pole_ = probe.south
            /\ dec_max_ = IF probe.north
                          THEN SetValues(0, NORTH_POLE, probe.pix[1],
                                         probe.pix[2])
                          ELSE passes.dec_max
            /\ dec_min_ = IF probe.south
                          THEN SetValues(0, SOUTH_POLE, probe.pix[1],
                                         probe.pix[2])
                          ELSE passes.dec_min
            /\ ra_min_ = passes.ra_min
            /\ ra_max_ = passes.ra_max
            /\ is_wrapped_ = passes.is_wrapped

\* The step of the pole probes leaves the ra extrema and the wrap flag alone.
ProbesKeepRa ==
    (bb_pc = "poles" /\ bb_pc' = "done") =>
        UNCHANGED <<ra_min_, ra_max_, is_wrapped_>>

\* A call of FindBoundingBox on an object that holds a box starts from
\* flags that are all false, whatever the earlier call left.
CallStartsFromScratch ==
    (bb_pc = "done" /\ bb_pc' = "walk") =>
        /\ ~is_wrapped_' /\ ~crosses_north_pole_' /\ ~crosses_south_pole_'
        /\ bb_probe' = << >>

\* C27: crosses_north_pole is true exactly when the north-pole probe falls
\* inside the image, and then dec_max is the pole point; when the probe is
\* outside, dec_max keeps its perimeter value and the flag is false; the
\* same for the south pole and dec_min.  The probes never change ra_min,
\* ra_max or is_wrapped, and every call of FindBoundingBox recomputes the
\* three flags from scratch.
C27_PoleProbes ==
    /\ []ProbesAnswered
    /\ [][ProbesKeepRa /\ CallStartsFromScratch]_vars

\* C27's case: a call on a wrapped image ended with the north pole inside
\* and the south pole outside, so dec_max is the pole point while dec_min
\* is still a perimeter sample.
C27_Witness ==
    /\ bb_pc = "done" /\ is_wrapped_
    /\ crosses_north_pole_ /\ ~crosses_south_pole_
    /\ dec_max_.dec = NORTH_POLE /\ dec_min_.dec > SOUTH_POLE
    /\ bb_width >= 2

----------------------------------------------------------------------------
(* skyprojection.cc: the body of the loops of WarpImage, for one pixel *)

\* Source coordinates are counted in half pixels: h stands for h / 2.
\* wcsprojection.h:106-113: ToPixel returns true when px, py lie inside the
\* image, whose pixels are 1-based: 0.5 <= px <= width + 0.5, and the same
\* for py.
InsideImage(x, y, width, height) ==
    /\ 1 <= x /\ x <= 2 * width + 1
    /\ 1 <= y /\ y <= 2 * height + 1

\* static_cast<int> of num / den, den > 0: it truncates toward zero.
Truncate(num, den) ==
    IF num >= 0 THEN num \div den ELSE 0 - ((0 - num) \div den)

\* skyprojection.cc:31-33: Round(value) is static_cast<int>(value + 0.5),
\* here of h / 2.
Round(h) == Truncate(h + 1, 2)

\* skyprojection.cc:336-341: x -= 1.0, and y -= 1.0 or y = height - y.
ShiftX(x) == x - 2

ShiftY(y, height, origin) ==
    IF origin = "LOWER_LEFT" THEN 2 * height - y ELSE y - 2

\* An index that is left as it is.
Unclamped(m, size) == m

\* skyprojection.cc:349, 351: if (m >= size) m = size - 1.
ClampToLast(m, size) == IF m >= size THEN size - 1 ELSE m

\* pngimage.h:203-206: CheckBounds, the asserts of GetPixel.
InBounds(m, n, width, height) ==
    0 <= m /\ m < width /\ 0 <= n /\ n < height

\* Largest side of the source image of the one-pixel model, and how far,
\* in half pixels, an answer of ToPixel lies off the image.
MaxSourceSide == 3
MaxOffImage == 4

\* A source image, its origin and the answer of wcs_->ToPixel for the sky
\* position of one output pixel.
InitPixel ==
    /\ wp_width \in 1..MaxSourceSide
    /\ wp_height \in 1..MaxSourceSide
    /\ wp_origin \in {"UPPER_LEFT", "LOWER_LEFT"}
    /\ \E x \in (1 - MaxOffImage)..(2 * wp_width + 1 + MaxOffImage),
          y \in (1 - MaxOffImage)..(2 * wp_height + 1 + MaxOffImage) :
          wp_answer = [x |-> x, y |-> y,
                       inside |-> InsideImage(x, y, wp_width, wp_height)]
    /\ wp_pixel = "none"
    /\ wp_pc = "ready"

\* skyprojection.cc:329-355: the body of the loops for one output pixel.
WarpPixel ==
    /\ wp_pc = "ready"
    /\ LET m == ClampToLast(Round(ShiftX(wp_answer.x)), wp_width)
           n == ClampToLast(Round(ShiftY(wp_answer.y, wp_height, wp_origin)),
                            wp_height)
       IN  IF ~wp_answer.inside
           THEN wp_pixel' = "bg_color_" /\ wp_pc' = "done"
           ELSE IF InBounds(m, n, wp_width, wp_height)
           THEN wp_pixel' = <<m, n>> /\ wp_pc' = "done"
           ELSE UNCHANGED wp_pixel /\ wp_pc' = "assert_failed"
    /\ UNCHANGED <<pixelOthers, wp_width, wp_height, wp_origin, wp_answer>>

NextPixel == WarpPixel

\* The pixel of an image of the given size nearest to coordinate h / 2
\* (a tie goes up), or the last one when that lies beyond.
NearestIndex(h, size) ==
    IF (h + 1) \div 2 >= size THEN size - 1 ELSE (h + 1) \div 2

\* C24: for every output pixel WarpImage writes the background color,
\* exactly when the projection service reports the sky point outside the
\* source image (never an error), or a copy of the source pixel at the
\* rounded source coordinates clamped to the last valid row / column; the
\* indices read lie in [0, width - 1] x [0, height - 1] for both input
\* origins.
C24_WarpPixelInRange ==
    /\ wp_pc # "assert_failed"
    /\ wp_pc = "done" =>
          IF ~wp_answer.inside THEN wp_pixel = "bg_color_"
          ELSE /\ wp_pixel # "bg_color_"
               /\ wp_pixel[1] \in 0..(wp_width - 1)
               /\ wp_pixel[2] \in 0..(wp_height - 1)
               /\ wp_pixel[1] = NearestIndex(wp_answer.x - 2, wp_width)
               /\ wp_pixel[2] =
                     NearestIndex(IF wp_origin = "LOWER_LEFT"
                                  THEN 2 * wp_height - wp_answer.y
                                  ELSE wp_answer.y - 2, wp_height)

\* C24's case: a sky point on the far edge of the last column of a
\* bottom-up image, whose rounded x is one past the last column.
C24_Witness ==
    /\ wp_pc = "done" /\ wp_origin = "LOWER_LEFT" /\ wp_answer.inside
    /\ wp_answer.x = 2 * wp_width + 1 /\ wp_answer.y = 1
    /\ wp_width >= 2 /\ wp_height >= 2
    /\ wp_pixel = <<wp_width - 1, wp_height - 1>>

----------------------------------------------------------------------------
(* regionator.h, regionator.cc *)

\* regionator.cc:49-52
Pad(size, block_size) ==
    (block_size - (size % block_size)) % block_size

\* regionator.cc:55-61
Min(x, y) == IF x < y THEN x ELSE y

\* The smallest int.
INT_MIN == 0 - 2147483647 - 1

\* static_cast<int> of a NaN is undefined: the conversion instruction of the
\* build decides (the smallest int, 0 or the largest int).
NanToInt(nan) ==
    IF nan = "min" THEN INT_MIN ELSE IF nan = "zero" THEN 0 ELSE 2147483647

\* regionator.cc:130-141: the tile sides SetMaxTileSideLength computes.
TileSizes(width, height, side_length) ==
    IF width > height
    THEN [x |-> side_length, y |-> RoundQuotient(side_length * height, width)]
    ELSE [x |-> RoundQuotient(side_length * width, height), y |-> side_length]

\* regionator.cc:210-213, 221, 223: the source coordinate sampled for index
\* i of a tile side of tile_size pixels over a1..a2.  With a side of 1 the
\* step is a division by zero and 0 * step is a NaN.
SampleCoord(a1, a2, tile_size, i, nan) ==
    IF tile_size = 1
    THEN Min(NanToInt(nan), a2)
    ELSE Min(a1 + (2 * i * (a2 - a1) + (tile_size - 1))
                      \div (2 * (tile_size - 1)), a2)

\* regionator.cc:220-223: the source coordinates sampled along one axis.
SampleCoords(a1, a2, tile_size, nan) ==
    { SampleCoord(a1, a2, tile_size, i, nan) : i \in 0..(tile_size - 1) }

\* The alpha channel of pixel (x, y) of the image, 0 <= x < width.
Alpha(pattern, width, height, x, y) ==
    IF pattern = "opaque" THEN 255
    ELSE IF pattern = "translucent" THEN 128
    ELSE IF pattern = "corner" THEN (IF x = 0 /\ y = 0 THEN 255 ELSE 0)
    ELSE IF pattern = "left" THEN (IF 2 * x < width THEN 255 ELSE 0)
    ELSE 0

AlphaPatterns == {"opaque", "translucent", "corner", "left", "transparent"}

\* regionator.cc:220-244: the sampled coordinate pairs.
SamplePairs(x1, y1, x2, y2, nan) ==
    SampleCoords(x1, x2, x_tile_size_, nan)
        \X SampleCoords(y1, y2, y_tile_size_, nan)

\* regionator.cc:224: the sample lies in the padding.
InPadding(p) == p[1] >= rg_width \/ p[2] >= rg_height

\* regionator.cc:220-223: the x of every tile column i (outer loop) or the
\* y of every tile row j (inner loop).
SampledAlong(a1, a2, tile_size, nan) ==
    [ i \in 0..(tile_size - 1) |-> SampleCoord(a1, a2, tile_size, i, nan) ]

\* regionator.cc:224-229: a tile pixel sampled at (x, y) is a copy of source
\* pixel (x, y), unless (x, y) lies in the padding: then it is transparent.
IsCopied(x, y) == ~InPadding(<<x, y>>)

\* image.h:133-140, 227-230: GetPixel dies on a coordinate out of bounds.
\* Line 224 lets a negative coordinate through.
SamplingDies(x1, y1, x2, y2, nan) ==
    \E p \in SamplePairs(x1, y1, x2, y2, nan) :
        ~InPadding(p) /\ (p[1] < 0 \/ p[2] < 0)

\* regionator.cc:217, 233-235
IsTransparent(x1, y1, x2, y2, nan) ==
    \A p \in SamplePairs(x1, y1, x2, y2, nan) :
        InPadding(p) \/ Alpha(rg_alpha, rg_width, rg_height, p[1], p[2]) = 0

\* regionator.cc:218, 226, 239-241
IsOpaque(x1, y1, x2, y2, nan) ==
    \A p \in SamplePairs(x1, y1, x2, y2, nan) :
        ~InPadding(p)
        /\ Alpha(rg_alpha, rg_width, rg_height, p[1], p[2]) = 255

\* A base case that stops only below one tile's worth of pixels.
StrictBaseCase(x1, y1, x2, y2, is_transparent) ==
    x2 - x1 < x_tile_size_ \/ y2 - y1 < y_tile_size_ \/ is_transparent

\* regionator.cc:332
BaseCase(x1, y1, x2, y2, is_transparent) ==
    x2 - x1 <= x_tile_size_ \/ y2 - y1 <= y_tile_size_ \/ is_transparent

Rect(x1, y1, x2, y2) == [x1 |-> x1, y1 |-> y1, x2 |-> x2, y2 |-> y2]

\* Four quadrants that are each the whole rectangle again.
UnsplitQuadrants(x1, y1, x2, y2) ==
    << Rect(x1, y1, x2, y2), Rect(x1, y1, x2, y2),
       Rect(x1, y1, x2, y2), Rect(x1, y1, x2, y2) >>

\* The four quadrants with the upper right and the lower left exchanged.
SwappedQuadrants(x1, y1, x2, y2) ==
    LET xmid == (x1 + x2) \div 2
        ymid == (y1 + y2) \div 2
    IN  << Rect(x1, y1, xmid, ymid), Rect(x1, ymid, xmid, y2),
           Rect(xmid, y1, x2, ymid), Rect(xmid, ymid, x2, y2) >>

\* Four quadrants that share no column and no row.
DisjointQuadrants(x1, y1, x2, y2) ==
    LET xmid == (x1 + x2) \div 2
        ymid == (y1 + y2) \div 2
    IN  << Rect(x1, y1, xmid, ymid), Rect(xmid + 1, y1, x2, ymid),
           Rect(x1, ymid + 1, xmid, y2), Rect(xmid + 1, ymid + 1, x2, y2) >>

\* regionator.cc:339-356: the four quadrants, in the order of the calls.
Quadrants(x1, y1, x2, y2) ==
    LET xmid == (x1 + x2) \div 2
        ymid == (y1 + y2) \div 2
    IN  << Rect(x1, y1, xmid, ymid), Rect(xmid, y1, x2, ymid),
           Rect(x1, ymid, xmid, y2), Rect(xmid, ymid, x2, y2) >>

\* The characters %d prints for a digit.
DigitChars == <<"0", "1", "2", "3", "4", "5", "6", "7", "8", "9">>

\* %d of StringPrintf for n >= 0, as a sequence of characters.
RECURSIVE Digits(_)
Digits(n) ==
    IF n < 10 THEN <<DigitChars[n + 1]>>
    ELSE Digits(n \div 10) \o <<DigitChars[(n % 10) + 1]>>

\* %d of StringPrintf.
FormatInt(n) == IF n < 0 THEN <<"-">> \o Digits(0 - n) ELSE Digits(n)

\* The filename prefix the caller gave the Regionator (regionator.cc:84-90).
filename_prefix_ == <<"t", "i", "l", "e">>

\* A prefix that names the corner (x1, y1) only.
CornerFilenamePrefix(x1, y1, x2, y2) ==
    filename_prefix_ \o <<"_">> \o FormatInt(x1) \o <<"_">> \o FormatInt(y1)

\* regionator.cc:370-375: "%s_%d_%d_%d_%d"
MakeFilenamePrefix(x1, y1, x2, y2) ==
    filename_prefix_ \o <<"_">> \o FormatInt(x1) \o <<"_">> \o FormatInt(y1)
        \o <<"_">> \o FormatInt(x2) \o <<"_">> \o FormatInt(y2)

\* The output directory the constructor sets (regionator.cc:90).
output_directory_ == <<"t", "i", "l", "e", "s">>

\* regionator.cc:260-261: the path a tile's image or KML is written to.
FullFilename(filename) == output_directory_ \o <<"/">> \o filename

\* a <= b for two ratios of positive denominators.
AtMost(a, b) == a.num * b.den <= b.num * a.den

\* wraparound.h:98-100 for ra = num / den: the loop takes whole turns off
\* until the value is at most 360, which leaves it on (0, 360].
LowerRatioInto360(num, den) ==
    IF num > THREE_SIXTY * den
    THEN ((num - 1) % (THREE_SIXTY * den)) + 1
    ELSE num

\* wraparound.h:101-103 for ra = num / den: the loop adds whole turns until
\* the value is not negative, which leaves it on [0, 360).
RaiseRatioInto360(num, den) ==
    IF num < 0 THEN num % (THREE_SIXTY * den) ELSE num

\* wraparound.h:97-104 for ra = num / den: the numerator of the result.
RestoreRatioWrapAround(num, den) ==
    RaiseRatioInto360(LowerRatioInto360(num, den), den)

\* regionator.cc:398-400 left out: west stays where the subtraction of 180
\* put it.
UnshiftedWest(east, west, den) == west

\* regionator.cc:398-400: if (*east < *west) *west -= 360.0, on numerators
\* over den.
ShiftedWest(east, west, den) ==
    IF east < west THEN west - THREE_SIXTY * den ELSE west

\* regionator.cc:377-402.  The declinations are numerators over the
\* denominator of dec_pixel_scale_, the right ascensions over the one of
\* ra_pixel_scale_.
ComputeBoundingBox(x1, y1, x2, y2) ==
    LET d == dec_pixel_scale_.den
        r == ra_pixel_scale_.den
        ra == ra_upper_left_ * r + x1 * ra_pixel_scale_.num
        ra2 == ra_upper_left_ * r + x2 * ra_pixel_scale_.num
        ra_wrap == RestoreRatioWrapAround(ra, r)
        ra_wrap2 == RestoreRatioWrapAround(ra2, r)
        east == IF ra > ra2 THEN ra_wrap - 180 * r ELSE ra_wrap2 - 180 * r
        west == IF ra > ra2 THEN ra_wrap2 - 180 * r ELSE ra - 180 * r
    IN  [north |-> Ratio(dec_upper_left_ * d + y1 * dec_pixel_scale_.num, d),
         south |-> Ratio(dec_upper_left_ * d + y2 * dec_pixel_scale_.num, d),
         east |-> Ratio(east, r),
         west |-> Ratio(ShiftedWest(east, west, r), r)]

\* regionator.cc:286-295 without its first branch: the level-0 tile gets the
\* configured thresholds like every other tile.
ConfiguredLod(level) ==
    [min_lod_pixels |-> min_lod_pixels_, max_lod_pixels |-> max_lod_pixels_]

\* regionator.cc:286-295: the Lod of the region of a tile's own KML.
TileLod(level) ==
    IF level = 0
    THEN [min_lod_pixels |-> 0, max_lod_pixels |-> 0 - 1]
    ELSE [min_lod_pixels |-> min_lod_pixels_,
          max_lod_pixels |-> max_lod_pixels_]

\* regionator.cc:277-299: the region of a tile's own KML.
TileRegion(level, rect) ==
    [lat_lon_alt_box |-> ComputeBoundingBox(rect.x1, rect.y1, rect.x2,
                                            rect.y2),
     lod |-> TileLod(level)]

\* regionator.cc:404-440
MakeNetworkLink(x1, y1, x2, y2) ==
    [href |-> MakeFilenamePrefix(x1, y1, x2, y2) \o <<".kml">>,
     region |-> [lat_lon_alt_box |-> ComputeBoundingBox(x1, y1, x2, y2),
                 lod |-> [min_lod_pixels |-> min_lod_pixels_,
                          max_lod_pixels |-> max_lod_pixels_]]]

\* A root link that keeps the href of the tile as it is.
UnprefixedRootLink(network_link) == network_link

\* regionator.cc:169-182: the network link of the root KML, which is always
\* visible and lives above the tile directory.
RootNetworkLink(network_link) ==
    [network_link EXCEPT
        !.region.lod = [min_lod_pixels |-> 0, max_lod_pixels |-> 0 - 1],
        !.href = output_directory_ \o <<"/">> \o @]

\* A call of SplitTileRecursively that has not started its body yet.
Call(level, rect) ==
    [level |-> level, rect |-> rect, entered |-> FALSE, next |-> 1,
     links |-> << >>]

\* Largest width and height of the image handed to the Regionator, and
\* largest side handed to SetMaxTileSideLength.
MaxRegionSide == 6
MaxTileSide == 3

\* regionator.cc:102: the side the constructor asks for.
DefaultTileSide == 256

\* The place of the next file written in the order of all files written
\* to the output directory.
NextWritten == Len(rg_tiles) + Len(rg_kmls) + 1

rgImage == <<rg_width, rg_height, rg_alpha, rg_box>>
rgScale == <<ra_pixel_scale_, dec_pixel_scale_, ra_upper_left_,
             dec_upper_left_>>
rgLod == <<min_lod_pixels_, max_lod_pixels_>>
rgTileSize == <<x_tile_size_, y_tile_size_, rg_side_length>>
rgOutput == <<rg_tiles, rg_kmls, rg_root, rg_root_link>>
rgDrawOrder == <<top_level_draw_order_, rg_draw_order_set>>

\* What the storage of an int holds before anything is assigned to it.
IndeterminateInts == {0 - 3, 0, 5}

\* The arguments handed to set_top_level_draw_order.
DrawOrders == {0, 2}

\* What GetMonotonicRaBounds and GetDecBounds return for a bounding box
\* (boundingbox.h:186-204): ra_min on [0, 360], ra_max at or above it and
\* above 360 for an image across the discontinuity, the declinations on
\* [-90, 90].
Bounds(ra_min, ra_max, dec_min, dec_max) ==
    [ra_min |-> ra_min, ra_max |-> ra_max,
     dec_min |-> dec_min, dec_max |-> dec_max]

\* The bounding box of the runs that do not look at the regions.
PlainBox == Bounds(10, 20, 0 - 10, 10)

\* The bounding boxes of the runs that do: a plain one, one across the
\* discontinuity, one of a single ra, the widest one across the
\* discontinuity; around the equator, down to the south pole, up to the
\* north pole.
BoundingBoxes ==
    { Bounds(ra[1], ra[2], dec[1], dec[2]) :
        ra \in {<<10, 20>>, <<350, 370>>, <<20, 20>>,
                <<MAX_DELTA_RA, MAX_DELTA_RA + THREE_SIXTY>>},
        dec \in {<<0 - 10, 10>>, <<0 - 90, 0 - 80>>, <<80, 90>>} }

\* An image with its bounding box, an empty output directory and the
\* storage of the Regionator, before the constructor runs.
InitRegionOf(sides, alphas, boxes) ==
    /\ rg_width \in sides
    /\ rg_height \in sides
    /\ rg_alpha \in alphas
    /\ rg_box \in boxes
    /\ ra_pixel_scale_ = Ratio(0, 1)
    /\ dec_pixel_scale_ = Ratio(0, 1)
    /\ ra_upper_left_ = 0
    /\ dec_upper_left_ = 0
    /\ min_lod_pixels_ = 0
    /\ max_lod_pixels_ = 0
    /\ x_tile_size_ = 0
    /\ y_tile_size_ = 0
    /\ rg_side_length = 0
    /\ top_level_draw_order_ \in IndeterminateInts
    /\ rg_draw_order_set = FALSE
    /\ rg_pc = "new"
    /\ rg_nan = "unused"
    /\ rg_stack = << >>
    /\ rg_tiles = << >>
    /\ rg_kmls = << >>
    /\ rg_root = "none"
    /\ rg_root_link = << >>
    /\ rg_fault = "none"

InitRegion == InitRegionOf(1..MaxRegionSide, AlphaPatterns, {PlainBox})

\* regionator.cc:128-145 as called with side_length.
SetTileSizes(side_length) ==
    LET size == TileSizes(rg_width, rg_height, side_length)
    IN  /\ rg_side_length' = side_length
        /\ IF side_length > 0
           THEN /\ x_tile_size_' = size.x
                /\ y_tile_size_' = size.y
                /\ rg_pc' = IF size.x > 0 /\ size.y > 0
                            THEN "constructed" ELSE "assert_failed"
           ELSE /\ UNCHANGED <<x_tile_size_, y_tile_size_>>
                /\ rg_pc' = "assert_failed"

\* regionator.cc:84-124: the constructor, with its asserts on the image.  It
\* assigns nothing to top_level_draw_order_.  Its bounding box has been
\* found, so the assert of GetMonotonicRaBounds holds.
RegionatorCtor ==
    /\ rg_pc = "new"
    /\ IF rg_width > 1 /\ rg_height > 1
       THEN /\ SetTileSizes(DefaultTileSide)
            /\ min_lod_pixels_' = 128
            /\ max_lod_pixels_' = 0 - 1
            /\ ra_pixel_scale_' =
                  Ratio(rg_box.ra_min - rg_box.ra_max, rg_width - 1)
            /\ dec_pixel_scale_' =
                  Ratio(rg_box.dec_min - rg_box.dec_max, rg_height - 1)
            /\ dec_upper_left_' = rg_box.dec_max
            /\ ra_upper_left_' = rg_box.ra_max
       ELSE /\ rg_pc' = "assert_failed"
            /\ UNCHANGED <<rgTileSize, rgScale, rgLod>>
    /\ UNCHANGED <<regionOthers, rgImage, rgDrawOrder, rgOutput, rg_nan,
                   rg_stack, rg_fault>>

\* regionator.cc:128-145
SetMaxTileSideLength ==
    /\ rg_pc = "constructed"
    /\ \E side_length \in 0..MaxTileSide : SetTileSizes(side_length)
    /\ UNCHANGED <<regionOthers, rgImage, rgScale, rgLod,
                   rgDrawOrder, rgOutput, rg_nan,
                   rg_stack, rg_fault>>

\* regionator.h:195-197
set_top_level_draw_order ==
    /\ rg_pc = "constructed"
    /\ top_level_draw_order_' \in DrawOrders
    /\ rg_draw_order_set' = TRUE
    /\ UNCHANGED <<regionOthers, rgImage, rgScale, rgLod,
                   rgTileSize, rgOutput, rg_pc,
                   rg_nan, rg_stack, rg_fault>>

\* The thresholds handed to set_min_lod_pixels.
MinLodPixels == {64}

\* The thresholds handed to set_max_lod_pixels.
MaxLodPixels == {512}

\* regionator.h:175-177
set_min_lod_pixels ==
    /\ rg_pc = "constructed"
    /\ min_lod_pixels_' \in MinLodPixels
    /\ UNCHANGED <<regionOthers, rgImage, rgScale, max_lod_pixels_,
                   rgDrawOrder, rgTileSize, rgOutput, rg_pc, rg_nan,
                   rg_stack, rg_fault>>

\* regionator.h:185-187
set_max_lod_pixels ==
    /\ rg_pc = "constructed"
    /\ max_lod_pixels_' \in MaxLodPixels
    /\ UNCHANGED <<regionOthers, rgImage, rgScale, min_lod_pixels_,
                   rgDrawOrder, rgTileSize, rgOutput, rg_pc, rg_nan,
                   rg_stack, rg_fault>>

\* regionator.cc:148-165: Regionate up to its call of SplitTileRecursively.
\* The directory exists or is created, or cannot be created (exit).  The
\* build's NaN conversion matters from here on, when a tile side is 1.
Regionate ==
    /\ rg_pc = "constructed"
    /\ \E made \in BOOLEAN :
          IF made
          THEN /\ rg_pc' = "tiling"
               /\ rg_stack' =
                    << Call(0, Rect(0, 0,
                         rg_width + Pad(rg_width, x_tile_size_) - 1,
                         rg_height + Pad(rg_height, y_tile_size_) - 1)) >>
               /\ UNCHANGED rg_fault
          ELSE /\ rg_pc' = "exit"
               /\ rg_fault' = "mkdir"
               /\ UNCHANGED rg_stack
    /\ IF x_tile_size_ = 1 \/ y_tile_size_ = 1
       THEN rg_nan' \in {"min", "zero", "max"}
       ELSE rg_nan' = "unused"
    /\ UNCHANGED <<regionOthers, rgImage, rgScale, rgLod,
                   rgDrawOrder, rgTileSize, rgOutput>>

Top == rg_stack[Len(rg_stack)]

SetTop(frame) == [rg_stack EXCEPT ![Len(rg_stack)] = frame]

\* regionator.cc:202-357 up to the first recursive call: the tile is
\* sampled (GetPixel may die), its image is written (or the write fails:
\* exit) and the network links of a tile that splits are made.
BeginTile ==
    /\ rg_pc = "tiling"
    /\ ~Top.entered
    /\ LET r == Top.rect
           transparent == IsTransparent(r.x1, r.y1, r.x2, r.y2, rg_nan)
           opaque == IsOpaque(r.x1, r.y1, r.x2, r.y2, rg_nan)
           leaf == BaseCase(r.x1, r.y1, r.x2, r.y2, transparent)
           links == IF leaf THEN << >>
                    ELSE Quadrants(r.x1, r.y1, r.x2, r.y2)
       IN  IF SamplingDies(r.x1, r.y1, r.x2, r.y2, rg_nan)
           THEN /\ rg_pc' = "assert_failed"
                /\ UNCHANGED <<rg_stack, rg_tiles, rg_fault>>
           ELSE \E written \in {TRUE, rg_fault # "none"} :
                  IF written
                  THEN /\ rg_tiles' = Append(rg_tiles,
                              [level |-> Top.level, rect |-> r,
                               written |-> NextWritten,
                               filename |-> MakeFilenamePrefix(r.x1, r.y1,
                                              r.x2, r.y2) \o <<".png">>,
                               sampled_x |-> SampledAlong(r.x1, r.x2,
                                               x_tile_size_, rg_nan),
                               sampled_y |-> SampledAlong(r.y1, r.y2,
                                               y_tile_size_, rg_nan),
                               is_transparent |-> transparent,
                               is_opaque |-> opaque, links |-> links])
                       /\ rg_stack' = SetTop([Top EXCEPT
                              !.entered = TRUE,
                              !.next = IF leaf THEN 5 ELSE 1,
                              !.links = links])
                       /\ UNCHANGED <<rg_pc, rg_fault>>
                  ELSE /\ rg_pc' = "exit"
                       /\ rg_fault' = "image_write"
                       /\ UNCHANGED <<rg_stack, rg_tiles>>
    /\ UNCHANGED <<regionOthers, rgImage, rgScale, rgLod,
                   rgDrawOrder, rgTileSize, rg_nan, rg_kmls,
                   rg_root, rg_root_link>>

\* regionator.cc:353-356: the next of the four recursive calls.
Descend ==
    /\ rg_pc = "tiling"
    /\ Top.entered
    /\ Top.next <= 4
    /\ rg_stack' = Append(SetTop([Top EXCEPT !.next = @ + 1]),
                          Call(Top.level + 1, Top.links[Top.next]))
    /\ UNCHANGED <<regionOthers, rgImage, rgScale, rgLod,
                   rgDrawOrder, rgTileSize, rgOutput, rg_pc,
                   rg_nan, rg_fault>>

\* regionator.cc:359-367: the tile's KML is written and the call returns.
\* fopen is checked (exit); the results of fprintf and fclose are not, so a
\* write that fails leaves a truncated file and the run goes on.
FinishTile ==
    /\ rg_pc = "tiling"
    /\ Top.entered
    /\ Top.next = 5
    /\ \E outcome \in {"ok"} \cup (IF rg_fault = "none"
                                   THEN {"open_fails", "write_fails"}
                                   ELSE {}) :
          IF outcome = "open_fails"
          THEN /\ rg_pc' = "exit"
               /\ rg_fault' = "kml_open"
               /\ UNCHANGED <<rg_stack, rg_kmls>>
          ELSE /\ rg_kmls' = Append(rg_kmls,
                      [rect |-> Top.rect, level |-> Top.level,
                       written |-> NextWritten,
                       filename |-> MakeFilenamePrefix(Top.rect.x1,
                                      Top.rect.y1, Top.rect.x2, Top.rect.y2)
                                    \o <<".kml">>,
                       links |-> Top.links,
                       region |-> TileRegion(Top.level, Top.rect),
                       icon_href |-> MakeFilenamePrefix(Top.rect.x1,
                                      Top.rect.y1, Top.rect.x2, Top.rect.y2)
                                    \o <<".png">>,
                       network_links |->
                           [ k \in 1..Len(Top.links) |->
                               MakeNetworkLink(Top.links[k].x1,
                                 Top.links[k].y1, Top.links[k].x2,
                                 Top.links[k].y2) ],
                       draw_order |-> Top.level + top_level_draw_order_,
                       complete |-> outcome = "ok"])
               /\ rg_stack' = SubSeq(rg_stack, 1, Len(rg_stack) - 1)
               /\ rg_pc' = IF Len(rg_stack) = 1 THEN "root" ELSE "tiling"
               /\ rg_fault' = IF outcome = "ok" THEN rg_fault
                              ELSE "kml_write"
    /\ UNCHANGED <<regionOthers, rgImage, rgScale, rgLod,
                   rgDrawOrder, rgTileSize, rg_nan, rg_tiles,
                   rg_root, rg_root_link>>

\* regionator.cc:167-195: the root KML; fopen is checked, the write is not.
WriteRootKml ==
    /\ rg_pc = "root"
    /\ \E outcome \in {"ok"} \cup (IF rg_fault = "none"
                                   THEN {"open_fails", "write_fails"}
                                   ELSE {}) :
          IF outcome = "open_fails"
          THEN /\ rg_pc' = "exit"
               /\ rg_fault' = "root_open"
               /\ UNCHANGED <<rg_root, rg_root_link>>
          ELSE /\ rg_root' = IF outcome = "ok" THEN "written"
                             ELSE "truncated"
               /\ rg_root_link' = RootNetworkLink(
                      MakeNetworkLink(0, 0,
                        rg_width + Pad(rg_width, x_tile_size_) - 1,
                        rg_height + Pad(rg_height, y_tile_size_) - 1))
               /\ rg_pc' = "done"
               /\ rg_fault' = IF outcome = "ok" THEN rg_fault
                              ELSE "root_write"
    /\ UNCHANGED <<regionOthers, rgImage, rgScale, rgLod,
                   rgDrawOrder, rgTileSize, rg_nan, rg_stack,
                   rg_tiles, rg_kmls>>

NextRegion ==
    \/ RegionatorCtor
    \/ SetMaxTileSideLength
    \/ set_top_level_draw_order
    \/ Regionate
    \/ BeginTile
    \/ Descend
    \/ FinishTile
    \/ WriteRootKml

\* The same run with the two thresholds set by the caller, if at all,
\* between the construction and Regionate (regionator.h:100-103).
NextKml ==
    \/ NextRegion
    \/ set_min_lod_pixels
    \/ set_max_lod_pixels

\* The run is over an all-opaque image whose width and height are both
\* twice the maximum tile side length, and Regionate has returned.
DoneOnOpaqueTwoByTwo ==
    /\ rg_pc = "done"
    /\ rg_alpha = "opaque"
    /\ rg_width = 2 * rg_side_length
    /\ rg_height = 2 * rg_side_length

\* Exactly 5 tiles: the level-0 tile over the whole image, then four
\* level-1 tiles without network links.
FiveTiles ==
    /\ Len(rg_tiles) = 5
    /\ rg_tiles[1].level = 0
    /\ rg_tiles[1].rect = Rect(0, 0, rg_width - 1, rg_height - 1)
    /\ \A i \in 2..5 : rg_tiles[i].level = 1 /\ rg_tiles[i].links = << >>

\* C1 as stated: an all-opaque image with W = H = 2T yields exactly 5 tiles,
\* for every T.  Refuted at T = 1: the 2 x 2 image is a single leaf tile.
C1_FiveTilesForEveryT == DoneOnOpaqueTwoByTwo => FiveTiles

\* C1, amended: an all-opaque image with W = H = 2T and T >= 2 yields
\* exactly 5 tiles, one at level 0 over the whole image and four leaves at
\* level 1.
C1_FiveTilesFromTwo ==
    (DoneOnOpaqueTwoByTwo /\ rg_side_length >= 2) => FiveTiles

\* C1's case: such a run, from the first tile to the root KML, no I/O
\* failure on the way.
C1_Witness ==
    /\ DoneOnOpaqueTwoByTwo /\ rg_side_length >= 2
    /\ rg_fault = "none" /\ rg_root = "written"
    /\ Len(rg_tiles) = 5 /\ Len(rg_kmls) = 5

\* Every pixel of the rectangle is transparent or lies in the padding.
RectIsTransparent(r) ==
    \A x \in r.x1..r.x2, y \in r.y1..r.y2 :
        \/ x >= rg_width \/ y >= rg_height
        \/ Alpha(rg_alpha, rg_width, rg_height, x, y) = 0

\* C2: a tile whose rectangle is fully transparent is a leaf, without
\* network links, whatever its span.  Refuted with a tile side of 1, where
\* the sampled coordinate is the build's conversion of a NaN: a build that
\* yields 0 samples pixel (0, 0), outside the rectangle.
C2_TransparentRectIsLeaf ==
    \A i \in 1..Len(rg_tiles) :
        RectIsTransparent(rg_tiles[i].rect) => rg_tiles[i].links = << >>

Max(x, y) == IF x > y THEN x ELSE y

\* C9: after SetMaxTileSideLength(s), s >= 1, on an image with width and
\* height above 1, the tile side along the larger image dimension is s and
\* the other is s scaled by the aspect ratio, rounded, at least 1.  Refuted:
\* there is no floor, the side becomes 0 and the closing assert fails.
C9_TileSidesWithFloor ==
    (rg_side_length >= 1 /\ rg_width > 1 /\ rg_height > 1) =>
        /\ IF rg_width > rg_height
           THEN /\ x_tile_size_ = rg_side_length
                /\ y_tile_size_ =
                     Max(1, RoundQuotient(rg_side_length * rg_height,
                                          rg_width))
           ELSE /\ y_tile_size_ = rg_side_length
                /\ x_tile_size_ =
                     Max(1, RoundQuotient(rg_side_length * rg_width,
                                          rg_height))
        /\ x_tile_size_ \in 1..rg_side_length
        /\ y_tile_size_ \in 1..rg_side_length

\* C10: when creating the output directory or writing a tile image or a
\* tile KML fails, Regionate stops there and the root KML is never written.
\* Refuted: a tile KML whose fprintf or fclose fails is not noticed.
C10_FailureStopsBeforeRoot ==
    rg_fault \in {"mkdir", "image_write", "kml_open", "kml_write"} =>
        (rg_pc = "exit" /\ rg_root = "none")

\* C11: within one Regionate run every emitted tile has a distinct pixel
\* rectangle and so a distinct filename: no two tiles write the same image
\* file or the same KML file.
C11_TileFilesDistinct ==
    /\ \A i, j \in 1..Len(rg_tiles) :
          i # j => /\ rg_tiles[i].rect # rg_tiles[j].rect
                   /\ rg_tiles[i].filename # rg_tiles[j].filename
    /\ \A i, j \in 1..Len(rg_kmls) :
          i # j => rg_kmls[i].filename # rg_kmls[j].filename
    /\ \A i \in 1..Len(rg_tiles), j \in 1..Len(rg_kmls) :
          rg_tiles[i].filename # rg_kmls[j].filename

\* C11's case: a finished run two levels deep, with a tile and one of its
\* children starting at the same corner and tiles of different parents
\* sharing a column.
C11_Witness ==
    /\ rg_pc = "done" /\ Len(rg_kmls) = Len(rg_tiles)
    /\ \E i, j, k \in 1..Len(rg_tiles) :
          /\ rg_tiles[i].level = 1 /\ rg_tiles[j].level = 2
          /\ rg_tiles[k].level = 2
          /\ rg_tiles[i].rect.x1 = rg_tiles[j].rect.x1
          /\ rg_tiles[i].rect.y1 = rg_tiles[j].rect.y1
          /\ rg_tiles[k].rect.x1 = rg_tiles[j].rect.x2
          /\ rg_tiles[k].rect.y1 = rg_tiles[j].rect.y1

\* C13: every leaf tile that is not fully transparent covers no more than
\* one tile's worth of source pixels in each axis: x2 - x1 <= x_tile_size_
\* and y2 - y1 <= y_tile_size_.  Refuted: the base case stops as soon as one
\* of the two spans is within the tile side, whatever the other span.
C13_LeavesAtNativeResolution ==
    \A i \in 1..Len(rg_tiles) :
        (rg_tiles[i].links = << >> /\ ~rg_tiles[i].is_transparent) =>
            /\ rg_tiles[i].rect.x2 - rg_tiles[i].rect.x1 <= x_tile_size_
            /\ rg_tiles[i].rect.y2 - rg_tiles[i].rect.y1 <= y_tile_size_

\* C14: a newly constructed Regionator has top-level draw order 0 unless
\* set_top_level_draw_order is called, so by default the tile at recursion
\* level L gets draw order L.  Refuted: the constructor never assigns the
\* member, whose value is whatever the storage held.
C14_DrawOrderDefaultsToZero ==
    (rg_pc \notin {"idle", "new"} /\ ~rg_draw_order_set) =>
        /\ top_level_draw_order_ = 0
        /\ \A i \in 1..Len(rg_kmls) : rg_kmls[i].draw_order = rg_kmls[i].level

\* C19: for every tile and every tile size >= 1, each of the x_tile_size *
\* y_tile_size tile pixels is a copy of the source pixel at a sampled
\* coordinate (x, y), x1 <= x <= x2, y1 <= y <= y2, inside the unpadded
\* image, or transparent when the coordinate is at or beyond the unpadded
\* width or height; the first and last sample of each axis are x1 / x2 and
\* y1 / y2, and the source image is never indexed out of range.  Refuted
\* with a tile side of 1: the sampled coordinate is the conversion of a NaN.
C19_TilePixelsSampleTheRect ==
    /\ ~(rg_pc = "assert_failed" /\ rg_stack # << >>)
    /\ \A t \in 1..Len(rg_tiles) :
          LET r == rg_tiles[t].rect
              xs == rg_tiles[t].sampled_x
              ys == rg_tiles[t].sampled_y
          IN  /\ DOMAIN xs = 0..(x_tile_size_ - 1)
              /\ DOMAIN ys = 0..(y_tile_size_ - 1)
              /\ xs[0] = r.x1 /\ xs[x_tile_size_ - 1] = r.x2
              /\ ys[0] = r.y1 /\ ys[y_tile_size_ - 1] = r.y2
              /\ \A i \in DOMAIN xs : xs[i] \in r.x1..r.x2
              /\ \A j \in DOMAIN ys : ys[j] \in r.y1..r.y2
              /\ \A i \in DOMAIN xs, j \in DOMAIN ys :
                    IsCopied(xs[i], ys[j]) =
                        (xs[i] \in 0..(rg_width - 1)
                         /\ ys[j] \in 0..(rg_height - 1))

Columns(rect) == rect.x1..rect.x2

Rows(rect) == rect.y1..rect.y2

\* C20: when a rectangle (x1, y1, x2, y2) is split, its four children are
\* (x1, y1, xmid, ymid), (xmid, y1, x2, ymid), (x1, ymid, xmid, y2) and
\* (xmid, ymid, x2, y2) with xmid = (x1 + x2) div 2, ymid = (y1 + y2) div 2:
\* together they cover every pixel of the parent, each is strictly smaller
\* than the parent in both axes, and adjacent children overlap in exactly
\* the one shared column xmid or row ymid.
C20_QuadrantsSplitAtMidpoints ==
    \A t \in 1..Len(rg_tiles) :
        rg_tiles[t].links # << >> =>
            LET r == rg_tiles[t].rect
                c == rg_tiles[t].links
                xmid == (r.x1 + r.x2) \div 2
                ymid == (r.y1 + r.y2) \div 2
            IN  /\ c = << Rect(r.x1, r.y1, xmid, ymid),
                          Rect(xmid, r.y1, r.x2, ymid),
                          Rect(r.x1, ymid, xmid, r.y2),
                          Rect(xmid, ymid, r.x2, r.y2) >>
                /\ \A x \in Columns(r), y \in Rows(r) :
                      \E k \in 1..4 : x \in Columns(c[k]) /\ y \in Rows(c[k])
                /\ \A k \in 1..4 :
                      /\ c[k].x2 - c[k].x1 < r.x2 - r.x1
                      /\ c[k].y2 - c[k].y1 < r.y2 - r.y1
                      /\ Columns(c[k]) \subseteq Columns(r)
                      /\ Rows(c[k]) \subseteq Rows(r)
                /\ \A k \in {1, 3} :
                      /\ Columns(c[k]) \cap Columns(c[k + 1]) = {xmid}
                      /\ Rows(c[k]) = Rows(c[k + 1])
                /\ \A k \in {1, 2} :
                      /\ Rows(c[k]) \cap Rows(c[k + 2]) = {ymid}
                      /\ Columns(c[k]) = Columns(c[k + 2])

\* C20's case: a finished run in which a rectangle of odd span in x and
\* even span in y was split and all four of its children were tiled.
C20_Witness ==
    /\ rg_pc = "done"
    /\ \E t \in 1..Len(rg_tiles) :
          /\ rg_tiles[t].links # << >>
          /\ (rg_tiles[t].rect.x2 - rg_tiles[t].rect.x1) % 2 = 1
          /\ (rg_tiles[t].rect.y2 - rg_tiles[t].rect.y1) % 2 = 0
          /\ \A k \in 1..4 : \E u \in 1..Len(rg_tiles) :
                rg_tiles[u].rect = rg_tiles[t].links[k]

\* Every call of SplitTileRecursively in progress has a rectangle strictly
\* smaller in both axes than the one of the call that made it.
CallsShrink ==
    \A d \in 2..Len(rg_stack) :
        /\ rg_stack[d].rect.x2 - rg_stack[d].rect.x1
              < rg_stack[d - 1].rect.x2 - rg_stack[d - 1].rect.x1
        /\ rg_stack[d].rect.y2 - rg_stack[d].rect.y1
              < rg_stack[d - 1].rect.y2 - rg_stack[d - 1].rect.y1

\* C21: Regionate terminates for every image with width, height > 1 and
\* every tile side length >= 1: every recursive call receives a rectangle
\* whose span is strictly smaller in both axes than its parent's, and the
\* tiling, once started, comes to an end.
C21_RegionateTerminates ==
    /\ []CallsShrink
    /\ (rg_pc = "tiling") ~> (rg_pc # "tiling")

\* C21's case: a run that went two levels deep and returned.
C21_Witness ==
    /\ rg_pc = "done" /\ rg_fault = "none"
    /\ \E t \in 1..Len(rg_tiles) : rg_tiles[t].level = 2

\* Rectangle a lies within rectangle b.
Within(a, b) == a.x1 >= b.x1 /\ a.x2 <= b.x2 /\ a.y1 >= b.y1 /\ a.y2 <= b.y2

\* The places, in the order of writing, of the files of the subtree whose
\* top tile has the given rectangle and level.
SubtreeFiles(rect, level) ==
    { rg_tiles[i].written : i \in { n \in 1..Len(rg_tiles) :
          rg_tiles[n].level >= level /\ Within(rg_tiles[n].rect, rect) } }
    \cup
    { rg_kmls[i].written : i \in { n \in 1..Len(rg_kmls) :
          rg_kmls[n].level >= level /\ Within(rg_kmls[n].rect, rect) } }

\* The places of the metadata file of the tile with the given rectangle.
KmlOf(rect) ==
    { rg_kmls[i].written : i \in { n \in 1..Len(rg_kmls) :
          rg_kmls[n].rect = rect } }

\* C22: the tiler is a strict depth-first traversal: a tile's image file is
\* written before any file of its descendants, the children are processed
\* in the order upper-left, upper-right, lower-left, lower-right, each
\* child's whole subtree finishing before the next sibling starts, and the
\* parent's own metadata file is written only after all four child subtrees
\* have completed.
C22_DepthFirstOrder ==
    /\ \A j \in 1..Len(rg_kmls) : \E t \in 1..Len(rg_tiles) :
          /\ rg_tiles[t].rect = rg_kmls[j].rect
          /\ rg_tiles[t].written < rg_kmls[j].written
    /\ \A t \in 1..Len(rg_tiles) :
          rg_tiles[t].links # << >> =>
            LET r == rg_tiles[t].rect
                xmid == (r.x1 + r.x2) \div 2
                ymid == (r.y1 + r.y2) \div 2
                child == << Rect(r.x1, r.y1, xmid, ymid),
                            Rect(xmid, r.y1, r.x2, ymid),
                            Rect(r.x1, ymid, xmid, r.y2),
                            Rect(xmid, ymid, r.x2, r.y2) >>
                sub == [ k \in 1..4 |->
                           SubtreeFiles(child[k], rg_tiles[t].level + 1) ]
            IN  /\ \A k \in 1..4 : \A f \in sub[k] : rg_tiles[t].written < f
                /\ \A k \in 1..3 :
                      /\ \A f \in sub[k], g \in sub[k + 1] : f < g
                      /\ sub[k + 1] # {} => KmlOf(child[k]) # {}
                /\ \A own \in KmlOf(r) : \A k \in 1..4 :
                      /\ KmlOf(child[k]) # {}
                      /\ \A f \in sub[k] : f < own

\* C22's case: a finished run in which a child of the top tile was split
\* itself, and the last file written is the metadata of the top tile.
C22_Witness ==
    /\ rg_pc = "done" /\ Len(rg_tiles) >= 9
    /\ rg_tiles[1].links # << >>
    /\ \E t \in 2..Len(rg_tiles) :
          rg_tiles[t].level = 1 /\ rg_tiles[t].links # << >>
    /\ rg_kmls[Len(rg_kmls)].rect = rg_tiles[1].rect
    /\ rg_kmls[Len(rg_kmls)].written = Len(rg_tiles) + Len(rg_kmls)

\* The file an href names: a relative href is resolved against the
\* directory of the document that holds it (<< >>: the working directory).
Resolve(directory, href) ==
    IF directory = << >> THEN href ELSE directory \o <<"/">> \o href

WrittenKmls == { FullFilename(rg_kmls[j].filename) : j \in 1..Len(rg_kmls) }

WrittenImages ==
    { FullFilename(rg_tiles[t].filename) : t \in 1..Len(rg_tiles) }

\* C23: after a successful Regionate every network link of every emitted
\* metadata document (the root document and each non-leaf tile's four
\* links) names a tile metadata file written in the same run, every tile
\* metadata document names an image file that was written, and leaf tiles
\* contain no network links.
C23_LinksNameWrittenFiles ==
    (rg_pc = "done" /\ rg_fault = "none") =>
        /\ Resolve(<< >>, rg_root_link.href) \in WrittenKmls
        /\ \A j \in 1..Len(rg_kmls) :
              /\ Resolve(output_directory_, rg_kmls[j].icon_href)
                    \in WrittenImages
              /\ \A k \in 1..Len(rg_kmls[j].network_links) :
                    Resolve(output_directory_,
                            rg_kmls[j].network_links[k].href)
                        \in WrittenKmls
        /\ \A t \in 1..Len(rg_tiles) : \E j \in 1..Len(rg_kmls) :
              /\ rg_kmls[j].rect = rg_tiles[t].rect
              /\ Len(rg_kmls[j].network_links) =
                    IF BaseCase(rg_tiles[t].rect.x1, rg_tiles[t].rect.y1,
                                rg_tiles[t].rect.x2, rg_tiles[t].rect.y2,
                                rg_tiles[t].is_transparent)
                    THEN 0 ELSE 4

\* C23's case: a successful run with tiles that link to four children each
\* and leaves below them.
C23_Witness ==
    /\ rg_pc = "done" /\ rg_fault = "none" /\ rg_root = "written"
    /\ rg_root_link # << >>
    /\ \E i, j \in 1..Len(rg_kmls) :
          /\ rg_kmls[i].level = 0 /\ Len(rg_kmls[i].network_links) = 4
          /\ rg_kmls[j].level = 1 /\ Len(rg_kmls[j].network_links) = 4


\* The angular rectangles written so far, with the rectangle of pixels each
\* one stands for: those of the tiles' own regions, of the network links
\* to their children and of the root KML's network link.
EmittedBoxes ==
    { [rect |-> rg_kmls[i].rect,
       box |-> rg_kmls[i].region.lat_lon_alt_box] : i \in 1..Len(rg_kmls) }
    \cup UNION { { [rect |-> rg_kmls[i].links[k],
                    box |-> rg_kmls[i].network_links[k].region
                                .lat_lon_alt_box] :
                      k \in 1..Len(rg_kmls[i].links) } :
                  i \in 1..Len(rg_kmls) }
    \cup { [rect |-> Rect(0, 0, rg_width + Pad(rg_width, x_tile_size_) - 1,
                          rg_height + Pad(rg_height, y_tile_size_) - 1),
            box |-> rg_root_link.region.lat_lon_alt_box] :
              n \in IF rg_root_link = << >> THEN {} ELSE {1} }

OnSphere(dec) ==
    (0 - 90) * dec.den <= dec.num /\ dec.num <= 90 * dec.den

\* C29: whenever the bounding box's declination range lies within
\* [-90, 90], the north and south of every emitted tile, the root tile and
\* the tiles that reach into the padded region included, lie within
\* [-90, 90] too.  Refuted: the rows of the padding are extrapolated with
\* the pixel scale of the image, below dec_min and below -90.
C29_TileDecsOnSphere ==
    ((0 - 90) <= rg_box.dec_min /\ rg_box.dec_max <= 90) =>
        \A e \in EmittedBoxes : OnSphere(e.box.north) /\ OnSphere(e.box.south)


\* The Lod of a region that is always visible.
AlwaysVisible == [min_lod_pixels |-> 0, max_lod_pixels |-> 0 - 1]

\* The Lod made of the thresholds the Regionator is configured with.
Configured ==
    [min_lod_pixels |-> min_lod_pixels_, max_lod_pixels |-> max_lod_pixels_]

\* C30: the level-0 tile's region and the root document's network link are
\* always visible (min LOD pixels 0, max LOD pixels -1) whatever thresholds
\* are configured, while every tile at level >= 1 and every network link
\* from a parent to a child carries exactly the configured thresholds.
C30_LodThresholds ==
    /\ \A i \in 1..Len(rg_kmls) :
          /\ rg_kmls[i].region.lod =
                IF rg_kmls[i].level = 0 THEN AlwaysVisible ELSE Configured
          /\ \A k \in 1..Len(rg_kmls[i].network_links) :
                rg_kmls[i].network_links[k].region.lod = Configured
    /\ rg_root_link # << >> => rg_root_link.region.lod = AlwaysVisible

\* C30's case: a finished run with both thresholds set by the caller to
\* other values than the always-visible ones, a level-0 tile with links to
\* its children, and the children's own KMLs.
C30_Witness ==
    /\ rg_pc = "done" /\ rg_fault = "none"
    /\ min_lod_pixels_ \in MinLodPixels /\ max_lod_pixels_ \in MaxLodPixels
    /\ Configured # AlwaysVisible
    /\ \E i, j \in 1..Len(rg_kmls) :
          /\ rg_kmls[i].level = 0 /\ Len(rg_kmls[i].network_links) = 4
          /\ rg_kmls[j].level = 1

----------------------------------------------------------------------------
(* image.h, image.cc *)

\* Unsigned numbers of up to 64 bits are sequences of 8 limbs of 8 bits,
\* least significant first, so that products beyond 2^31 are exact.
NumLimbs == 8
LimbBase == 2 ^ 8

\* static_cast<size_t> of an int n >= 0.
Limbs(n) ==
    [i \in 1..NumLimbs |->
        IF i <= 4 THEN (n \div (LimbBase ^ (i - 1))) % LimbBase ELSE 0]

\* The sum of a[p] * b[i + 1 - p] over p..i: column i of a product.
RECURSIVE ColumnSum(_, _, _, _)
ColumnSum(a, b, i, p) ==
    IF p > i THEN 0 ELSE a[p] * b[i + 1 - p] + ColumnSum(a, b, i, p + 1)

\* The limbs from i on of the number whose columns are cols, given a carry.
RECURSIVE Carried(_, _, _)
Carried(cols, i, carry) ==
    IF i > NumLimbs THEN << >>
    ELSE <<(cols[i] + carry) % LimbBase>>
            \o Carried(cols, i + 1, (cols[i] + carry) \div LimbBase)

\* a * b modulo 2^64.
MulLimbs(a, b) ==
    Carried([i \in 1..NumLimbs |-> ColumnSum(a, b, i, 1)], 1, 0)

\* a modulo 2^(8 * bytes): what a size_t of that many bytes keeps.
Wrapped(a, bytes) == [i \in 1..NumLimbs |-> IF i <= bytes THEN a[i] ELSE 0]

\* a < b, comparing from limb i down.
RECURSIVE LessFrom(_, _, _)
LessFrom(a, b, i) ==
    IF i = 0 THEN FALSE
    ELSE IF a[i] # b[i] THEN a[i] < b[i]
    ELSE LessFrom(a, b, i - 1)

LessLimbs(a, b) == LessFrom(a, b, NumLimbs)

\* image.cc:54-66: the channels of a colorspace, 0 for an unknown one.
ChannelsOf(colorspace) ==
    IF colorspace = "GRAYSCALE" THEN 1
    ELSE IF colorspace = "GRAYSCALE_PLUS_ALPHA" THEN 2
    ELSE IF colorspace = "RGB" THEN 3
    ELSE IF colorspace = "RGBA" THEN 4
    ELSE 0

\* width * height * channels without any wrap.
ExactNumPixels(width, height, channels) ==
    MulLimbs(MulLimbs(Limbs(width), Limbs(height)), Limbs(channels))

\* image.cc:69-71: num_pixels, a product of three size_t.
NumPixels(width, height, channels, bytes) ==
    Wrapped(ExactNumPixels(width, height, channels), bytes)

\* image.cc:73-76: the overflow check of Resize.
OverflowCheck(width, height, channels, bytes) ==
    \/ LessLimbs(NumPixels(width, height, channels, bytes), Limbs(width))
    \/ LessLimbs(NumPixels(width, height, channels, bytes), Limbs(height))

\* The widths and heights handed to Resize, and the colorspaces.
ResizeSides == {0 - 1, 0, 5, 65536, 70000, 2147483647}
Colorspaces == {"UNDEFINED_COLORSPACE", "GRAYSCALE", "GRAYSCALE_PLUS_ALPHA",
                "RGB", "RGBA"}

\* image.cc:39-44: an empty image, in a build with a size_t of 4 or 8 bytes.
InitImage ==
    /\ im_size_bytes \in {4, 8}
    /\ im_width_ = 0
    /\ im_height_ = 0
    /\ im_channels_ = 0
    /\ im_buffer = << >>
    /\ im_pc = "ready"
    /\ im_op = "Image"
    /\ im_resizes = 0
    /\ im_request = << >>
    /\ im_result = "none"

\* Largest number of Resize calls made on one image.
MaxResizes == 2

\* image.cc:48-94.  new[] either returns the buffer or throws.
Resize ==
    /\ im_pc = "ready"
    /\ im_resizes < MaxResizes
    /\ im_resizes' = im_resizes + 1
    /\ im_op' = "Resize"
    /\ \E width \in ResizeSides, height \in ResizeSides,
          colorspace \in Colorspaces, allocated \in BOOLEAN :
          LET channels == ChannelsOf(colorspace)
          IN  /\ im_request' = [width |-> width, height |-> height,
                                colorspace |-> colorspace]
              /\ IF width <= 0 \/ height <= 0
                 THEN /\ im_pc' = "check_failed"
                      /\ im_result' = "none"
                      /\ UNCHANGED <<im_width_, im_height_, im_channels_,
                                     im_buffer>>
                 ELSE IF channels = 0
                         \/ OverflowCheck(width, height, channels,
                                          im_size_bytes)
                 THEN /\ im_result' = "false"
                      /\ UNCHANGED <<im_pc, im_width_, im_height_,
                                     im_channels_, im_buffer>>
                 ELSE IF allocated
                 THEN /\ im_result' = "true"
                      /\ im_buffer' = NumPixels(width, height, channels,
                                                im_size_bytes)
                      /\ im_width_' = width
                      /\ im_height_' = height
                      /\ im_channels_' = channels
                      /\ UNCHANGED im_pc
                 ELSE /\ im_result' = "false"
                      /\ im_buffer' = << >>
                      /\ im_width_' = 0
                      /\ im_height_' = 0
                      /\ im_channels_' = 0
                      /\ UNCHANGED im_pc
    /\ UNCHANGED <<imageOthers, im_size_bytes>>

\* image.h:109-118
ImageClear ==
    /\ im_pc = "ready"
    /\ im_op # "Clear"
    /\ im_op' = "Clear"
    /\ im_buffer' = << >>
    /\ im_width_' = 0
    /\ im_height_' = 0
    /\ im_channels_' = 0
    /\ UNCHANGED <<imageOthers, im_size_bytes, im_pc, im_resizes, im_request,
                   im_result>>

NextImage ==
    \/ Resize
    \/ ImageClear

\* C16: Resize rejects every request with a non-positive width or height
\* and every request whose width * height * channels overflows size_t, for
\* all int dimensions and colorspaces; no buffer smaller than the requested
\* product is ever allocated.  Refuted where size_t has 32 bits: a wrapped
\* product that is not below the width or the height passes the check.
C16_ResizeRejectsBadSizes ==
    im_op = "Resize" =>
        LET width == im_request.width
            height == im_request.height
            channels == ChannelsOf(im_request.colorspace)
        IN  /\ (width <= 0 \/ height <= 0) =>
                  (im_pc = "check_failed" /\ im_result = "none")
            /\ (width > 0 /\ height > 0 /\ channels > 0
                  /\ NumPixels(width, height, channels, im_size_bytes)
                        # ExactNumPixels(width, height, channels)) =>
                  im_result = "false"
            /\ im_result = "true" =>
                  /\ width > 0 /\ height > 0 /\ channels > 0
                  /\ im_buffer = ExactNumPixels(width, height, channels)

----------------------------------------------------------------------------
(* mask.h, mask.cc *)

\* The pixels <<i, j>> of an image, 0 <= i < width, 0 <= j < height.
PixelsOf(width, height) == (0..(width - 1)) \X (0..(height - 1))

\* One inner loop of a pass that does not stop at the first pixel of
\* another color.
RECURSIVE MaskAlongPast(_, _, _, _, _, _, _)
MaskAlongPast(pixels, image, color, i, j, di, dj) ==
    IF <<i, j>> \notin DOMAIN image.pixels THEN pixels
    ELSE MaskAlongPast(IF image.pixels[<<i, j>>] # color THEN pixels
                       ELSE [pixels EXCEPT ![<<i, j>>] = 0],
                       image, color, i + di, j + dj, di, dj)

\* mask.cc:67-74 and the like: one inner loop, from pixel (i, j) in steps
\* of (di, dj) to the first pixel that does not equal the color.
RECURSIVE MaskAlong(_, _, _, _, _, _, _)
MaskAlong(pixels, image, color, i, j, di, dj) ==
    IF <<i, j>> \notin DOMAIN image.pixels THEN pixels
    ELSE IF image.pixels[<<i, j>>] # color THEN pixels
    ELSE MaskAlong([pixels EXCEPT ![<<i, j>>] = 0], image, color,
                   i + di, j + dj, di, dj)

\* mask.cc:66-75, 78-87: the rows from row j on, each from column `from`.
RECURSIVE HorizontalPass(_, _, _, _, _, _)
HorizontalPass(pixels, image, color, j, from, di) ==
    IF j >= image.height THEN pixels
    ELSE HorizontalPass(MaskAlong(pixels, image, color, from, j, di, 0),
                        image, color, j + 1, from, di)

\* mask.cc:90-99, 102-111: the columns from column i on, each from row `from`.
RECURSIVE VerticalPass(_, _, _, _, _, _)
VerticalPass(pixels, image, color, i, from, dj) ==
    IF i >= image.width THEN pixels
    ELSE VerticalPass(MaskAlong(pixels, image, color, i, from, 0, dj),
                      image, color, i + 1, from, dj)

\* mask.cc:53-111: the mask, opaque at first, after the four passes.
MaskPixels(image, color) ==
    LET opaque == [p \in DOMAIN image.pixels |-> 255]
        right == HorizontalPass(opaque, image, color, 0, 0, 1)
        left == HorizontalPass(right, image, color, 0, image.width - 1,
                               0 - 1)
        down == VerticalPass(left, image, color, 0, 0, 1)
    IN  VerticalPass(down, image, color, 0, image.height - 1, 0 - 1)

\* Largest number of pixels of an image handed to CreateMask.
MaxMaskPixels == 9

MaskColors == {"black", "white"}

\* The images handed to CreateMask: an empty image or one with pixels.
MaskImages ==
    { [width |-> 0, height |-> 0, channels |-> 0, pixels |-> << >>] } \cup
    UNION { { [width |-> w, height |-> h, channels |-> 4, pixels |-> px] :
                px \in [PixelsOf(w, h) -> MaskColors] } :
            <<w, h>> \in { d \in (1..MaxMaskPixels) \X (1..MaxMaskPixels) :
                            d[1] * d[2] <= MaxMaskPixels } }

\* The arguments of CreateMask.
InitMask ==
    /\ mk_image \in MaskImages
    /\ mk_color \in [channels : {3, 4}, value : MaskColors]
    /\ mk_mask = << >>
    /\ mk_pc = "ready"

\* mask.cc:37-112.  The asserts on the image, the check of the color's
\* channels (exit), the resize of the mask (exit when it fails) and the
\* four passes.
CreateMask ==
    /\ mk_pc = "ready"
    /\ IF mk_image.width <= 0 \/ mk_image.height <= 0
       THEN mk_pc' = "assert_failed" /\ UNCHANGED mk_mask
       ELSE IF mk_color.channels # mk_image.channels
       THEN mk_pc' = "exit" /\ UNCHANGED mk_mask
       ELSE \E allocated \in BOOLEAN :
              IF allocated
              THEN /\ mk_mask' = [width |-> mk_image.width,
                                  height |-> mk_image.height,
                                  channels |-> ChannelsOf("GRAYSCALE"),
                                  pixels |-> MaskPixels(mk_image,
                                                        mk_color.value)]
                   /\ mk_pc' = "done"
              ELSE mk_pc' = "exit" /\ UNCHANGED mk_mask
    /\ UNCHANGED <<maskOthers, mk_image, mk_color>>

NextMask == CreateMask

\* Every pixel from (i, j) to the border in the direction (di, dj), the
\* pixel itself included, equals the color.
ClearTo(image, color, i, j, di, dj) ==
    \A k \in 0..MaxMaskPixels :
        <<i + k * di, j + k * dj>> \in DOMAIN image.pixels =>
            image.pixels[<<i + k * di, j + k * dj>>] = color

\* C17: CreateMask returns a single-channel mask of the size of the image
\* in which a pixel is 0 exactly when every pixel from the left, right, top
\* or bottom border up to and including it, along its row or column, equals
\* the mask-out color; every other pixel is 255.
C17_MaskIsEdgeFlood ==
    mk_pc = "done" =>
        /\ mk_mask.channels = 1
        /\ mk_mask.width = mk_image.width
        /\ mk_mask.height = mk_image.height
        /\ DOMAIN mk_mask.pixels = PixelsOf(mk_image.width, mk_image.height)
        /\ \A p \in DOMAIN mk_mask.pixels :
              mk_mask.pixels[p] =
                IF \/ ClearTo(mk_image, mk_color.value, p[1], p[2], 0 - 1, 0)
                   \/ ClearTo(mk_image, mk_color.value, p[1], p[2], 1, 0)
                   \/ ClearTo(mk_image, mk_color.value, p[1], p[2], 0, 0 - 1)
                   \/ ClearTo(mk_image, mk_color.value, p[1], p[2], 0, 1)
                THEN 0 ELSE 255

\* C17's case: a 3 x 3 image whose centre has the mask-out color but is cut
\* off from every border, next to border pixels that are masked out.
C17_Witness ==
    /\ mk_pc = "done" /\ mk_image.width = 3 /\ mk_image.height = 3
    /\ mk_image.pixels[<<1, 1>>] = mk_color.value
    /\ mk_mask.pixels[<<1, 1>>] = 255
    /\ mk_mask.pixels[<<0, 0>>] = 0
    /\ mk_mask.pixels[<<2, 1>>] = 255

----------------------------------------------------------------------------
(* The specifications *)

WrapIdle ==
    /\ wa_in = 0
    /\ wa_out = 0
    /\ wa_op = "none"

BBoxIdle ==
    /\ bb_width = 1
    /\ bb_height = 1
    /\ wcs_sky = << >>
    /\ ra_min_ = SetValues(0, 0, 0, 0)
    /\ ra_max_ = SetValues(0, 0, 0, 0)
    /\ dec_min_ = SetValues(0, 0, 0, 0)
    /\ dec_max_ = SetValues(0, 0, 0, 0)
    /\ is_wrapped_ = FALSE
    /\ crosses_north_pole_ = FALSE
    /\ crosses_south_pole_ = FALSE
    /\ bb_probe = << >>
    /\ bb_pc = "idle"
    /\ bb_idx = 0
    /\ bb_pass = 0
    /\ mono_ra_min = 0
    /\ mono_ra_max = 0

SkyIdle ==
    /\ image_width = 1
    /\ image_height = 1
    /\ projected_width_ = 0
    /\ projected_height_ = 0
    /\ sp_pc = "idle"
    /\ sp_op = "none"
    /\ sp_old_width = 0
    /\ sp_old_height = 0
    /\ sp_arg = 0
    /\ sp_warp_calls = 0
    /\ projected_images = << >>
    /\ world_file = << >>

ImageIdle ==
    /\ im_size_bytes = 8
    /\ im_width_ = 0
    /\ im_height_ = 0
    /\ im_channels_ = 0
    /\ im_buffer = << >>
    /\ im_pc = "idle"
    /\ im_op = "none"
    /\ im_resizes = 0
    /\ im_request = << >>
    /\ im_result = "none"

MaskIdle ==
    /\ mk_image = << >>
    /\ mk_color = << >>
    /\ mk_mask = << >>
    /\ mk_pc = "idle"

PixelIdle ==
    /\ wp_width = 0
    /\ wp_height = 0
    /\ wp_origin = "none"
    /\ wp_answer = << >>
    /\ wp_pixel = "none"
    /\ wp_pc = "idle"

RegionIdle ==
    /\ rg_width = 2
    /\ rg_height = 2
    /\ rg_alpha = "opaque"
    /\ rg_box = PlainBox
    /\ ra_pixel_scale_ = Ratio(0, 1)
    /\ dec_pixel_scale_ = Ratio(0, 1)
    /\ ra_upper_left_ = 0
    /\ dec_upper_left_ = 0
    /\ min_lod_pixels_ = 0
    /\ max_lod_pixels_ = 0
    /\ x_tile_size_ = 0
    /\ y_tile_size_ = 0
    /\ rg_side_length = 0
    /\ top_level_draw_order_ = 0
    /\ rg_draw_order_set = FALSE
    /\ rg_pc = "idle"
    /\ rg_nan = "unused"
    /\ rg_stack = << >>
    /\ rg_tiles = << >>
    /\ rg_kmls = << >>
    /\ rg_root = "none"
    /\ rg_root_link = << >>
    /\ rg_fault = "none"

InitSpecWrap ==
    InitWrap /\ BBoxIdle /\ SkyIdle /\ RegionIdle /\ ImageIdle /\ MaskIdle
    /\ PixelIdle

SpecWrap == InitSpecWrap /\ [][NextWrap]_vars

InitSpecBBox ==
    InitBBox /\ WrapIdle /\ SkyIdle /\ RegionIdle /\ ImageIdle /\ MaskIdle
    /\ PixelIdle

SpecBBox == InitSpecBBox /\ [][NextBBox]_vars

\* Largest width + height of the images whose passes are compared, sample
\* by sample, with what the whole call has to compute.
MaxPassesDimSum == 4

InitSpecPasses ==
    InitBBoxOf(MaxPassesDimSum) /\ WrapIdle /\ SkyIdle /\ RegionIdle
    /\ ImageIdle /\ MaskIdle /\ PixelIdle

\* The bounding box over the smaller images.
SpecPasses == InitSpecPasses /\ [][NextBBox]_vars

InitSpecSky == InitSky /\ WrapIdle /\ RegionIdle /\ ImageIdle /\ MaskIdle
    /\ PixelIdle

SpecSky == InitSpecSky /\ [][NextSky]_vars

\* The sky projector from its construction to the warp and the world file.
SpecWarp == InitSpecSky /\ [][NextWarp]_vars

InitSpecRegion ==
    InitRegion /\ WrapIdle /\ BBoxIdle /\ SkyIdle /\ ImageIdle /\ MaskIdle
    /\ PixelIdle

SpecRegion == InitSpecRegion /\ [][NextRegion]_vars

\* Largest image side of the runs whose order of writing is followed.
MaxOrderSide == 5

InitSpecOrder ==
    /\ InitRegionOf(1..MaxOrderSide, {"opaque", "corner"}, {PlainBox})
    /\ WrapIdle /\ BBoxIdle /\ SkyIdle /\ ImageIdle /\ MaskIdle
    /\ PixelIdle

\* The regionator over the images whose tiling is followed file by file.
SpecOrder == InitSpecOrder /\ [][NextRegion]_vars

\* A call of Regionate that has started runs on: the steps of the tiling
\* are taken as long as they are enabled.
SpecRegionFair ==
    /\ SpecOrder
    /\ WF_vars(BeginTile) /\ WF_vars(Descend) /\ WF_vars(FinishTile)

\* The largest image side of the runs that look at the regions.
MaxKmlSide == 3

InitKml == InitRegionOf(2..MaxKmlSide, {"opaque", "corner"}, BoundingBoxes)

InitSpecKml ==
    InitKml /\ WrapIdle /\ BBoxIdle /\ SkyIdle /\ ImageIdle /\ MaskIdle
    /\ PixelIdle

\* The regionator over images with several bounding boxes and thresholds.
SpecKml == InitSpecKml /\ [][NextKml]_vars

InitSpecImage ==
    InitImage /\ WrapIdle /\ BBoxIdle /\ SkyIdle /\ RegionIdle /\ MaskIdle
    /\ PixelIdle

SpecImage == InitSpecImage /\ [][NextImage]_vars

InitSpecDegenerate ==
    InitDegenerate /\ WrapIdle /\ SkyIdle /\ RegionIdle /\ ImageIdle /\ MaskIdle
    /\ PixelIdle

SpecDegenerate == InitSpecDegenerate /\ [][NextBBox]_vars

InitSpecPixel ==
    InitPixel /\ WrapIdle /\ BBoxIdle /\ SkyIdle /\ RegionIdle /\ ImageIdle
    /\ MaskIdle

SpecPixel == InitSpecPixel /\ [][NextPixel]_vars

InitSpecMask ==
    InitMask /\ WrapIdle /\ BBoxIdle /\ SkyIdle /\ RegionIdle /\ ImageIdle
    /\ PixelIdle

SpecMask == InitSpecMask /\ [][NextMask]_vars

====
